---------------------------- MODULE Spec2Model ----------------------------
(***************************************************************************)
(* Identity resolution and version reconciliation of the GOG installer     *)
(* update checker (src/gog_installer_update_checker.py and its older       *)
(* near-duplicate src/main.py).                                            *)
(*                                                                         *)
(* Python values are represented as follows.  A str is a sequence of       *)
(* one-character strings (<<"1", ".", "2">> is "1.2").  None, where        *)
(* a str is optional, is the one-element sequence <<"None">>, which no str *)
(* equals because "None" is not one character.  A three-valued             *)
(* bool-or-None is one of "True", "False", "None".                         *)
(*                                                                         *)
(* The module holds one specification per component; a component's         *)
(* variables stay at their idle value in the other specifications.         *)
(***************************************************************************)
EXTENDS Integers, Sequences, FiniteSets, TLC

VARIABLES
    \* ---- compare_versions
    local_info,          \* path -> record, the argument of compare_versions
    online_info,         \* product id -> remote entry
    Match_Versions,      \* DATA.Match_Versions: product id -> groups
    sorted_local_info,   \* paths still to compare, in sort_local_info's order
    compared,            \* paths whose comparison returned, in order
    new_versions_dict,   \* the findings, in insertion order
    log,                 \* logging events, in order
    lookups,             \* get_local_version_from_gog calls: path, response
    raised,              \* where an exception left compare_versions, or None
    cv_pc,               \* "idle" | "sort" | "loop" | "done" | "raised"
    \* ---- dedup_installers_id
    installers_dict,     \* path -> product id, the argument
    id_list,             \* the product ids the outer loop has yet to take
    dd_product_id,       \* the outer loop's product_id, or None
    scan_at,             \* the inner for loop's place in sorted(keys)
    deduped_installers_dict_aux,  \* path -> product id, insertion order
    deduped_installers_dict,      \* the value returned, or None
    dd_pc,               \* "idle" | "outer" | "inner" | "done"
    \* ---- is_main_game
    installer_info,      \* the descriptor read from the info file
    Goodies_ID,          \* the keys of DATA.Goodies_ID
    is_main,             \* the value returned: "True" | "False", or "None"
    mg_pc,               \* "idle" | "call" | "done"
    \* ---- search_product_id_on_gog
    source_file,         \* which of the two source files runs
    Roman_Numerals,      \* DATA.Roman_Numerals, in the dict's order
    sr_product_name,     \* product_name of the call in progress
    searches,            \* the names searched for, in order
    found_id,            \* the value returned, or None
    search_log,          \* logging events of the search, in order
    responses,           \* what download_data gave for each search, in order
    sr_pc,               \* "idle" | "call" | "done" | "raised"
    \* ---- get_product_id, the hyphen-spacing loop
    raw_name,            \* product_name when the loop is reached
    hy_name,             \* product_name in the loop
    passes,              \* passes of the loop body made
    hy_pc,               \* "idle" | "loop" | "done"
    \* ---- normalize_version_name, applied again to its own result
    nv_input,            \* the version name given first
    nv_results,          \* the values returned so far, in order
    nv_pc,               \* "idle" | "call" | "done"
    \* ---- main, start_processing
    run_pc,              \* the stage the run is at, "idle" when none runs
    exit_code,           \* the process's exit code, -1 while it runs
    traceback,           \* the uncaught exception that ended the run, or None
    mi_file,             \* the source file insert_missing_info is taken from
    installers_dict_deduped,  \* path -> product id, dedup's result
    todo,                \* the paths the current stage has yet to take
    scratch_dirs,        \* the paths whose scratch directory exists
    most_scratch_dirs,   \* the most scratch directories there were at once
    extraction_failed,   \* the paths whose info file could not be extracted
    excluded,            \* the paths is_main_game returned False for
    downloads,           \* the remote calls made, in order
    report,              \* the lines written to the output file, in order
    \* ---- map_product_id, get_product_id
    rs_pc,               \* "idle" | "map" | "search" | "done" | "exited"
    rs_todo,             \* the installers map_product_id has yet to take
    rs_data,             \* DATA: Delisted_Games, Strings_To_Remove, ...
    resolutions,         \* installer -> what get_product_id did for it
    mapping              \* installer -> product id, map_product_id's dict

cmpVars == <<local_info, online_info, Match_Versions, sorted_local_info,
             compared, new_versions_dict, log, lookups, raised, cv_pc>>

dedupVars == <<installers_dict, id_list, dd_product_id, scan_at,
               deduped_installers_dict_aux, deduped_installers_dict, dd_pc>>

mainGameVars == <<installer_info, Goodies_ID, is_main, mg_pc>>

searchVars == <<source_file, Roman_Numerals, sr_product_name, searches,
                found_id, search_log, responses, sr_pc>>

hyphenVars == <<raw_name, hy_name, passes, hy_pc>>

normVars == <<nv_input, nv_results, nv_pc>>

runVars == <<run_pc, exit_code, traceback, mi_file, installers_dict_deduped,
             todo, scratch_dirs, most_scratch_dirs, extraction_failed,
             excluded, downloads, report>>

resolveVars == <<rs_pc, rs_todo, rs_data, resolutions, mapping>>

vars == <<cmpVars, dedupVars, mainGameVars, searchVars, hyphenVars, normVars,
          runVars, resolveVars>>

-----------------------------------------------------------------------------
(* Python values *)

None == <<"None">>

UNKNOWN == <<"U", "n", "k", "n", "o", "w", "n">>

\* ord() of the characters the model uses (str comparison is by code point)
Ord(c) ==
    CASE c = " " -> 32  [] c = "!" -> 33  [] c = "#" -> 35  [] c = "$" -> 36
      [] c = "&" -> 38  [] c = "-" -> 45  [] c = "." -> 46  [] c = "/" -> 47
      [] c = "0" -> 48  [] c = "1" -> 49  [] c = "2" -> 50  [] c = "3" -> 51
      [] c = "7" -> 55  [] c = "8" -> 56  [] c = "9" -> 57
      [] c = "?" -> 63  [] c = "A" -> 65  [] c = "B" -> 66  [] c = "E" -> 69
      [] c = "G" -> 71  [] c = "I" -> 73  [] c = "L" -> 76  [] c = "M" -> 77
      [] c = "V" -> 86  [] c = "X" -> 88
      [] c = "\\" -> 92 [] c = "_" -> 95  [] c = "a" -> 97  [] c = "b" -> 98
      [] c = "c" -> 99  [] c = "e" -> 101 [] c = "f" -> 102 [] c = "m" -> 109
      [] c = "x" -> 120 [] c = "|" -> 124 [] c = "~" -> 126
      [] OTHER -> 255

\* str.lower() on one character
LowerChar(c) ==
    CASE c = "A" -> "a" [] c = "B" -> "b" [] c = "E" -> "e" [] c = "G" -> "g"
      [] c = "I" -> "i" [] c = "L" -> "l" [] c = "M" -> "m" [] c = "V" -> "v"
      [] c = "X" -> "x"
      [] OTHER -> c

\* str.lower()
Lower(s) == [i \in 1..Len(s) |-> LowerChar(s[i])]

\* s < t for two str
RECURSIVE StrLess(_, _)
StrLess(s, t) ==
    IF t = <<>> THEN FALSE
    ELSE IF s = <<>> THEN TRUE
    ELSE IF s[1] # t[1] THEN Ord(s[1]) < Ord(t[1])
    ELSE StrLess(Tail(s), Tail(t))

\* sorted() of a set of str
RECURSIVE SortedStrs(_)
SortedStrs(S) ==
    IF S = {} THEN <<>>
    ELSE LET m == CHOOSE x \in S : \A y \in S \ {x} : StrLess(x, y)
         IN  <<m>> \o SortedStrs(S \ {m})

\* int() of a str of decimal digits
RECURSIVE IntOfDigits(_, _)
IntOfDigits(s, acc) ==
    IF s = <<>> THEN acc
    ELSE IntOfDigits(Tail(s), acc * 10 + (Ord(s[1]) - 48))

DigitChar(d) ==
    CASE d = 0 -> "0" [] d = 1 -> "1" [] d = 2 -> "2" [] d = 3 -> "3"
      [] d = 4 -> "4" [] d = 5 -> "5" [] d = 6 -> "6" [] d = 7 -> "7"
      [] d = 8 -> "8" [] OTHER -> "9"

\* str() of a non-negative int
RECURSIVE StrOfInt(_)
StrOfInt(n) ==
    IF n < 10 THEN <<DigitChar(n)>>
    ELSE StrOfInt(n \div 10) \o <<DigitChar(n % 10)>>

-----------------------------------------------------------------------------
(* normalize_version_name *)

illegal_characters == <<"#", "!", "?", "\\", "/", "~", "|", "&", "$">>

\* length of the run of c that starts s
RECURSIVE LeadRun(_, _)
LeadRun(s, c) ==
    IF s # <<>> /\ s[1] = c THEN 1 + LeadRun(Tail(s), c) ELSE 0

\* length of the run of c that ends s
RECURSIVE TrailRun(_, _)
TrailRun(s, c) ==
    IF s # <<>> /\ s[Len(s)] = c
    THEN 1 + TrailRun(SubSeq(s, 1, Len(s) - 1), c) ELSE 0

\* re.match("^" + c + "+.+$", s): a run of c, then at least one character
MatchLead(s, c) == Len(s) >= 2 /\ s[1] = c

\* re.sub("^" + c + "+(.+)$", "\1", s): the greedy run gives back one
\* character when it would leave nothing for the group
SubLead(s, c) ==
    LET run == LeadRun(s, c)
        cut == IF run = Len(s) THEN run - 1 ELSE run
    IN  SubSeq(s, cut + 1, Len(s))

\* re.match("^.+?" + c + "+$", s): at least one character, then a run of c
MatchTrail(s, c) == Len(s) >= 2 /\ s[Len(s)] = c

\* re.sub("^(.+?)" + c + "+$", "\1", s): the lazy group is the shortest
\* non-empty prefix followed only by c
SubTrail(s, c) ==
    LET run  == TrailRun(s, c)
        keep == IF run = Len(s) THEN 1 ELSE Len(s) - run
    IN  SubSeq(s, 1, keep)

RECURSIVE PurgeLead(_, _)
PurgeLead(s, c) == IF MatchLead(s, c) THEN PurgeLead(SubLead(s, c), c) ELSE s

RECURSIVE PurgeTrail(_, _)
PurgeTrail(s, c) ==
    IF MatchTrail(s, c) THEN PurgeTrail(SubTrail(s, c), c) ELSE s

\* the for loop over illegal_characters, from the i-th on
RECURSIVE PurgeIllegal(_, _)
PurgeIllegal(s, i) ==
    IF i > Len(illegal_characters) THEN s
    ELSE PurgeIllegal(
             PurgeTrail(PurgeLead(s, illegal_characters[i]),
                        illegal_characters[i]),
             i + 1)

IsSpace(c) == c = " "

\* str.strip()
RECURSIVE Strip(_)
Strip(s) ==
    IF s # <<>> /\ IsSpace(s[1]) THEN Strip(Tail(s))
    ELSE IF s # <<>> /\ IsSpace(s[Len(s)])
         THEN Strip(SubSeq(s, 1, Len(s) - 1))
         ELSE s

\* str.replace("_", " ")
UnderscoresToSpaces(s) ==
    [i \in 1..Len(s) |-> IF s[i] = "_" THEN " " ELSE s[i]]

\* while s.endswith("."): s = s[:-1]
RECURSIVE StripTrailingPeriods(_)
StripTrailingPeriods(s) ==
    IF s # <<>> /\ s[Len(s)] = "."
    THEN StripTrailingPeriods(SubSeq(s, 1, Len(s) - 1)) ELSE s

normalize_version_name(version_name) ==
    StripTrailingPeriods(
        UnderscoresToSpaces(Strip(PurgeIllegal(version_name, 1))))

-----------------------------------------------------------------------------
(* compare_versions: the values it is run on *)

PathA == <<"a">>
PathB == <<"b">>
Paths == {PathA, PathB}

P1 == <<"1">>
P2 == <<"2">>
ProductIds == {P1, P2}

V12    == <<"1", ".", "2">>
V12dot == <<"1", ".", "2", ".">>
V12a   == <<"1", ".", "2", "a">>
V12A   == <<"1", ".", "2", "A">>
V120   == <<"1", ".", "2", ".", "0">>

B9  == <<"9">>
B10 == <<"1", "0">>

NameB == <<"B">>
Nameb == <<"b">>

\* what get_local_info_from_exe and insert_missing_info can leave in a record
LocalVersions == {None, V12, V12dot, V12a}
LocalBuilds   == {None, B9, B10}
ProductNames  == {None, NameB, Nameb}

LocalRecord(product_id, product_name, old_version, build_id, version_name) ==
    [product_id   |-> product_id,
     product_name |-> product_name,
     old_version  |-> old_version,
     build_id     |-> build_id,
     version_name |-> version_name]

\* what load_online_data stores for a product id
OnlineEntry(version_name, build_id, old_version) ==
    [version_name |-> version_name,
     build_id     |-> build_id,
     old_version  |-> old_version]

NotFoundEntry == OnlineEntry(None, None, "None")

ModernEntries ==
    {OnlineEntry(v, b, "False") : v \in {V12, V120, V12A}, b \in {B9, B10}}

\* the version of a legacy entry is what OLD_VERSION_REGEX captures from the
\* remote file name, or None
LegacyEntries ==
    {OnlineEntry(v, B9, "True") : v \in {None, V12, V120}}

OnlineEntries == {NotFoundEntry} \cup ModernEntries \cup LegacyEntries

\* The record of PathA and its remote entry range over every combination;
\* the record of PathB, which is there for what two records do to each
\* other (the order, a shared name, an exception, the findings so far),
\* ranges over fewer.
FirstRecords ==
    {LocalRecord(P1, n, o, b, v) :
        n \in ProductNames, o \in BOOLEAN, b \in LocalBuilds,
        v \in LocalVersions}

SecondRecords ==
    {LocalRecord(P2, n, o, bv[1], bv[2]) :
        n \in ProductNames, o \in BOOLEAN,
        bv \in {<<None, None>>, <<None, V12>>, <<B9, V12>>}}

SecondOnlineEntries == {NotFoundEntry, OnlineEntry(V120, B10, "False")}

\* DATA.Match_Versions; None and the empty dict are both the empty mapping,
\* versions_should_match answers False for either
MatchVersionsChoices == {<<>>, (P1 :> << <<V12, V120>> >>)}

\* the builds listing get_local_version_from_gog downloads: None when the
\* download fails, else the items
BuildsItem(build_id, version_name) ==
    [build_id |-> build_id, version_name |-> version_name]

BuildsResponses ==
    {None, <<>>, <<BuildsItem(B10, V120), BuildsItem(B9, V12)>>}

-----------------------------------------------------------------------------
(* logging *)

Event(level, msg, product_id) ==
    [level |-> level, msg |-> msg, product_id |-> product_id]

\* ErrorTrackHandler.emit: record.levelno >= logging.ERROR
IsErrorLevel(level) == level \in {"ERROR", "CRITICAL"}

error_occurred == \E i \in 1..Len(log) : IsErrorLevel(log[i].level)

-----------------------------------------------------------------------------
(* the findings: a dict keyed by product id, in insertion order *)

Finding(product_id, product_name, local_version, local_build, local_old_version, online_version, online_build, online_old_version) ==
    [product_id         |-> product_id,
     product_name       |-> product_name,
     local_version      |-> local_version,
     local_build        |-> local_build,
     local_old_version  |-> local_old_version,
     online_version     |-> online_version,
     online_build       |-> online_build,
     online_old_version |-> online_old_version]

HasKey(d, product_id) == \E i \in 1..Len(d) : d[i].product_id = product_id

Get(d, product_id) ==
    d[CHOOSE i \in 1..Len(d) : d[i].product_id = product_id]

\* d[key] = value: an existing key keeps its place
DictSet(d, finding) ==
    IF HasKey(d, finding.product_id)
    THEN [i \in 1..Len(d) |->
             IF d[i].product_id = finding.product_id THEN finding ELSE d[i]]
    ELSE Append(d, finding)

-----------------------------------------------------------------------------
(* sort_local_info *)

NamesOf(info) == {info[p].product_name : p \in DOMAIN info}

\* installer_name_map[product_name] = installer, over sorted(local_info):
\* the last path that carries the name is the one kept
installer_name_map(info, product_name) ==
    CHOOSE p \in DOMAIN info :
        /\ info[p].product_name = product_name
        /\ \A q \in DOMAIN info :
               info[q].product_name = product_name => (q = p \/ StrLess(q, p))

\* sorted(installer_name_map) compares None with a str: TypeError
SortRaises(info) == None \in NamesOf(info) /\ NamesOf(info) # {None}

SortSite == <<"sort_local_info">>

\* the installers in the order of their paths
sort_local_info_ByPath(info) == SortedStrs(DOMAIN info)

sort_local_info(info) ==
    LET names == SortedStrs(NamesOf(info))
    IN  [i \in 1..Len(names) |-> installer_name_map(info, names[i])]

-----------------------------------------------------------------------------
(* versions_should_match, get_local_version_from_gog *)

InVersionList(version, version_list) ==
    \E i \in 1..Len(version_list) : version_list[i] = version

versions_should_match(product_id, local_version, online_version) ==
    IF DOMAIN Match_Versions = {} THEN FALSE
    ELSE /\ product_id \in DOMAIN Match_Versions
         /\ \E g \in 1..Len(Match_Versions[product_id]) :
                /\ InVersionList(online_version, Match_Versions[product_id][g])
                /\ InVersionList(local_version, Match_Versions[product_id][g])

\* a response of download_data: it failed (None) or gave the items
Failed == [status |-> "failed", items |-> <<>>]
Ok(items) == [status |-> "ok", items |-> items]

BuildsDownloads == {Failed} \cup {Ok(items) : items \in BuildsResponses \ {None}}

\* the version of the first item, whatever its build
get_local_version_from_gog_First(gog_dict, local_build) ==
    IF gog_dict.status = "failed" \/ gog_dict.items = <<>> THEN None
    ELSE gog_dict.items[1].version_name

\* the first item, in response order, whose build_id is local_build
get_local_version_from_gog(gog_dict, local_build) ==
    IF gog_dict.status = "failed" THEN None
    ELSE IF \E i \in 1..Len(gog_dict.items) :
                gog_dict.items[i].build_id = local_build
         THEN gog_dict.items[
                  CHOOSE i \in 1..Len(gog_dict.items) :
                      /\ gog_dict.items[i].build_id = local_build
                      /\ \A j \in 1..(i - 1) :
                             gog_dict.items[j].build_id # local_build
              ].version_name
         ELSE None

\* what download_data logs for a product id
DownloadLog(gog_dict, product_id) ==
    <<Event("INFO", "downloading_game_data", product_id)>>
    \o (IF gog_dict.status = "failed"
        THEN <<Event("ERROR", "download_error", product_id)>>
        ELSE <<>>)

-----------------------------------------------------------------------------
(* compare_new_versions, compare_old_versions *)

\* Faulty variants of the comparisons below; a property that tells a
\* comparison from its variant depends on that comparison.

\* the build ids compared as str, without int()
BuildIsNewer_AsStr(online_build, local_build) ==
    StrLess(local_build, online_build)

\* the normalized versions compared without lower()
NormalizedVersionsDiffer_CaseSensitive(local_version, online_version) ==
    normalize_version_name(local_version)
        # normalize_version_name(online_version)

\* the old-generation versions compared after normalization
OldVersionsDiffer_Normalized(local_version, online_version) ==
    Lower(normalize_version_name(local_version))
        # Lower(normalize_version_name(online_version))

\* the not-found test left out
OnlineNotFound_Unchecked(entry) == FALSE

\* every found remote record taken for an old-generation one
OnlineIsOldGen_AnyFound(entry) == entry.old_version # "None"

\* online_build > local_build, both int()
BuildIsNewer(online_build, local_build) ==
    IntOfDigits(online_build, 0) > IntOfDigits(local_build, 0)

\* local_version_norm.lower() != online_version_norm.lower()
NormalizedVersionsDiffer(local_version, online_version) ==
    Lower(normalize_version_name(local_version))
        # Lower(normalize_version_name(online_version))

\* online_version != local_version
OldVersionsDiffer(local_version, online_version) ==
    online_version # local_version

\* online_info[product_id].get("old_version") is None
OnlineNotFound(entry) == entry.old_version = "None"

\* if online_info[product_id]["old_version"]:
OnlineIsOldGen(entry) == entry.old_version = "True"

\* int(build_id), or UNKNOWN on the TypeError that None gives
BuildOrUnknown(build_id) ==
    IF build_id = None THEN UNKNOWN ELSE StrOfInt(IntOfDigits(build_id, 0))

OrUnknown(value) == IF value = None THEN UNKNOWN ELSE value

IsMissing(version) == version = None \/ version = UNKNOWN

\* the loop of compare_versions moves on to the next installer
Returns(path) ==
    /\ compared' = Append(compared, path)
    /\ sorted_local_info' = Tail(sorted_local_info)
    /\ cv_pc' = IF Tail(sorted_local_info) = <<>> THEN "done" ELSE "loop"
    /\ raised' = raised

\* an exception leaves compare_versions and ends the run
Raises(path) ==
    /\ raised' = path
    /\ cv_pc' = "raised"
    /\ UNCHANGED <<compared, sorted_local_info>>

compare_new_versions(path) ==
    LET rec            == local_info[path]
        product_id     == rec.product_id
        product_name   == rec.product_name
        online_version == online_info[product_id].version_name
        local_version  == rec.version_name
        online_build   == BuildOrUnknown(online_info[product_id].build_id)
        local_build    == BuildOrUnknown(rec.build_id)
        start          == Append(log, Event("INFO", "comparing", product_id))
        found(lv)      == Finding(product_id, product_name, lv, local_build,
                                  FALSE, online_version, online_build, FALSE)
    IN
    IF online_build # UNKNOWN /\ local_build # UNKNOWN
    THEN IF BuildIsNewer(online_info[product_id].build_id, rec.build_id)
         THEN IF IsMissing(local_version)
              THEN \E gog_dict \in BuildsDownloads :
                     /\ new_versions_dict' =
                            DictSet(new_versions_dict,
                                    found(OrUnknown(
                                        get_local_version_from_gog(
                                            gog_dict, local_build))))
                     /\ lookups' = Append(lookups, [path |-> path,
                                                    gog_dict |-> gog_dict])
                     /\ log' = Append(start, Event("INFO", "newer_build",
                                                   product_id))
                               \o DownloadLog(gog_dict, product_id)
                     /\ Returns(path)
              ELSE /\ new_versions_dict' =
                          DictSet(new_versions_dict, found(local_version))
                   /\ log' = Append(start, Event("INFO", "newer_build",
                                                 product_id))
                   /\ UNCHANGED lookups
                   /\ Returns(path)
         ELSE /\ log' = Append(start, Event("INFO", "same_or_older_build",
                                            product_id))
              /\ UNCHANGED <<new_versions_dict, lookups>>
              /\ Returns(path)
    ELSE IF IsMissing(local_version)
         THEN /\ log' = Append(start, Event("ERROR", "cannot_compare",
                                            product_id))
              /\ UNCHANGED <<new_versions_dict, lookups>>
              /\ Returns(path)
         ELSE IF versions_should_match(product_id, local_version,
                                       online_version)
         THEN /\ log' = Append(start, Event("INFO", "versions_match",
                                            product_id))
              /\ UNCHANGED <<new_versions_dict, lookups>>
              /\ Returns(path)
         ELSE IF online_version = None
         \* normalize_version_name(None): re.match raises TypeError
         THEN /\ log' = start
              /\ UNCHANGED <<new_versions_dict, lookups>>
              /\ Raises(path)
         ELSE IF NormalizedVersionsDiffer(local_version, online_version)
         THEN /\ new_versions_dict' =
                     DictSet(new_versions_dict, found(local_version))
              /\ log' = Append(start, Event("INFO", "newer_version",
                                            product_id))
              /\ UNCHANGED lookups
              /\ Returns(path)
         ELSE /\ log' = Append(start, Event("INFO", "same_or_older_version",
                                            product_id))
              /\ UNCHANGED <<new_versions_dict, lookups>>
              /\ Returns(path)

compare_old_versions(path) ==
    LET rec            == local_info[path]
        product_id     == rec.product_id
        product_name   == rec.product_name
        online_version == OrUnknown(online_info[product_id].version_name)
        local_version  == OrUnknown(rec.version_name)
        local_build    == OrUnknown(rec.build_id)
        online_build   == OrUnknown(online_info[product_id].build_id)
        start          == Append(log, Event("INFO", "comparing", product_id))
        found(online_old_version) ==
            Finding(product_id, product_name, local_version, local_build,
                    TRUE, online_version, online_build, online_old_version)
    IN
    /\ UNCHANGED lookups
    /\ Returns(path)
    /\ IF OnlineNotFound(online_info[product_id])
       THEN /\ log' = Append(start, Event("INFO", "not_found_online",
                                          product_id))
            /\ UNCHANGED new_versions_dict
       ELSE IF OnlineIsOldGen(online_info[product_id])
       THEN IF online_version = UNKNOWN
            THEN /\ log' = Append(start, Event("INFO", "no_repository_data",
                                               product_id))
                 /\ UNCHANGED new_versions_dict
            ELSE IF versions_should_match(product_id, local_version,
                                          online_version)
            THEN /\ log' = Append(start, Event("INFO", "versions_match",
                                               product_id))
                 /\ UNCHANGED new_versions_dict
            ELSE IF OldVersionsDiffer(local_version, online_version)
            THEN /\ new_versions_dict' =
                        DictSet(new_versions_dict, found(TRUE))
                 /\ log' = Append(start, Event("INFO", "newer_version",
                                               product_id))
            ELSE /\ log' = Append(start, Event("INFO",
                                               "same_or_older_version",
                                               product_id))
                 /\ UNCHANGED new_versions_dict
       ELSE /\ new_versions_dict' = DictSet(new_versions_dict, found(FALSE))
            /\ log' = Append(start, Event("INFO", "old_gen_local",
                                          product_id))

-----------------------------------------------------------------------------
(* compare_versions *)

\* the parts of the program that a run of one part leaves untouched
DedupIdle ==
    /\ installers_dict = <<>>
    /\ id_list = {}
    /\ dd_product_id = None
    /\ scan_at = 0
    /\ deduped_installers_dict_aux = <<>>
    /\ deduped_installers_dict = <<>>
    /\ dd_pc = "idle"

MainGameIdle ==
    /\ installer_info = <<>>
    /\ Goodies_ID = {}
    /\ is_main = "None"
    /\ mg_pc = "idle"

SearchIdle ==
    /\ source_file = "none"
    /\ Roman_Numerals = <<>>
    /\ sr_product_name = None
    /\ searches = <<>>
    /\ found_id = None
    /\ search_log = <<>>
    /\ responses = <<>>
    /\ sr_pc = "idle"

HyphenIdle ==
    /\ raw_name = <<>>
    /\ hy_name = <<>>
    /\ passes = 0
    /\ hy_pc = "idle"

NormIdle ==
    /\ nv_input = <<>>
    /\ nv_results = <<>>
    /\ nv_pc = "idle"

ResolveIdle ==
    /\ rs_pc = "idle"
    /\ rs_todo = <<>>
    /\ rs_data = <<>>
    /\ resolutions = <<>>
    /\ mapping = <<>>

RunIdle ==
    /\ run_pc = "idle"
    /\ exit_code = -1
    /\ traceback = None
    /\ mi_file = "none"
    /\ installers_dict_deduped = <<>>
    /\ todo = <<>>
    /\ scratch_dirs = {}
    /\ most_scratch_dirs = 0
    /\ extraction_failed = {}
    /\ excluded = {}
    /\ downloads = <<>>
    /\ report = <<>>

CompareIdle ==
    /\ local_info = <<>>
    /\ online_info = <<>>
    /\ Match_Versions = <<>>
    /\ sorted_local_info = <<>>
    /\ compared = <<>>
    /\ new_versions_dict = <<>>
    /\ log = <<>>
    /\ lookups = <<>>
    /\ raised = None
    /\ cv_pc = "idle"

InitCompare ==
    /\ DedupIdle /\ MainGameIdle /\ SearchIdle /\ HyphenIdle
    /\ NormIdle /\ RunIdle /\ ResolveIdle
    /\ \E ra \in FirstRecords, rb \in SecondRecords :
           local_info = (PathA :> ra @@ PathB :> rb)
    /\ \E ea \in OnlineEntries, eb \in SecondOnlineEntries :
           online_info = (P1 :> ea @@ P2 :> eb)
    /\ Match_Versions \in MatchVersionsChoices
    /\ sorted_local_info = <<>>
    /\ compared = <<>>
    /\ new_versions_dict = <<>>
    /\ log = <<>>
    /\ lookups = <<>>
    /\ raised = None
    /\ cv_pc = "sort"

\* local_info = sort_local_info(local_info)
SortLocalInfo ==
    /\ cv_pc = "sort"
    /\ log' = Append(log, Event("INFO", "sorting", None))
    /\ IF SortRaises(local_info)
       THEN /\ raised' = SortSite
            /\ cv_pc' = "raised"
            /\ UNCHANGED sorted_local_info
       ELSE /\ sorted_local_info' = sort_local_info(local_info)
            /\ cv_pc' = IF DOMAIN local_info = {} THEN "done" ELSE "loop"
            /\ UNCHANGED raised
    /\ UNCHANGED <<local_info, online_info, Match_Versions, compared,
                   new_versions_dict, lookups>>
    /\ UNCHANGED <<dedupVars, mainGameVars, searchVars, hyphenVars,
                   normVars, runVars, resolveVars>>

CompareOldVersions ==
    /\ cv_pc = "loop"
    /\ local_info[Head(sorted_local_info)].old_version
    /\ compare_old_versions(Head(sorted_local_info))
    /\ UNCHANGED <<local_info, online_info, Match_Versions>>
    /\ UNCHANGED <<dedupVars, mainGameVars, searchVars, hyphenVars,
                   normVars, runVars, resolveVars>>

CompareNewVersions ==
    /\ cv_pc = "loop"
    /\ ~local_info[Head(sorted_local_info)].old_version
    /\ compare_new_versions(Head(sorted_local_info))
    /\ UNCHANGED <<local_info, online_info, Match_Versions>>
    /\ UNCHANGED <<dedupVars, mainGameVars, searchVars, hyphenVars,
                   normVars, runVars, resolveVars>>

NextCompare ==
    \/ SortLocalInfo
    \/ CompareOldVersions
    \/ CompareNewVersions

SpecCompare == InitCompare /\ [][NextCompare]_vars

-----------------------------------------------------------------------------
(* Properties of compare_new_versions and compare_old_versions *)

Compared == {compared[i] : i \in 1..Len(compared)}

\* the installers whose comparison was started
Entered == Compared \cup (IF raised \in Paths THEN {raised} ELSE {})

PidOf(path) == local_info[path].product_id

RemoteOf(path) == online_info[PidOf(path)]

FoundFor(path) == HasKey(new_versions_dict, PidOf(path))

FindingOf(path) == Get(new_versions_dict, PidOf(path))

IsModern(path) == ~local_info[path].old_version

IsLegacy(path) == local_info[path].old_version

BothBuildsPresent(path) ==
    local_info[path].build_id # None /\ RemoteOf(path).build_id # None

\* the two versions stand together in a group configured for the product id
CoOccur(product_id, local_version, online_version) ==
    /\ product_id \in DOMAIN Match_Versions
    /\ \E g \in 1..Len(Match_Versions[product_id]) :
           /\ \E i \in 1..Len(Match_Versions[product_id][g]) :
                  Match_Versions[product_id][g][i] = local_version
           /\ \E i \in 1..Len(Match_Versions[product_id][g]) :
                  Match_Versions[product_id][g][i] = online_version

\* C1: for a Modern record with both build ids present, a finding is
\* recorded exactly when the remote build id is greater than the local one
\* as integers, and the finding tags both sides as Modern.
C1_BuildComparison ==
    \A path \in Entered :
        (IsModern(path) /\ BothBuildsPresent(path)) =>
            /\ path \in Compared
            /\ FoundFor(path) <=>
                   IntOfDigits(RemoteOf(path).build_id, 0)
                       > IntOfDigits(local_info[path].build_id, 0)
            /\ FoundFor(path) =>
                   /\ ~FindingOf(path).local_old_version
                   /\ ~FindingOf(path).online_old_version

\* a remote build 10 above a local build 9 was found as an update, and a
\* remote build 9 below a local build 10 was passed over
C1_Witness ==
    /\ PathA \in Compared
    /\ IsModern(PathA)
    /\ BothBuildsPresent(PathA)
    /\ \/ /\ local_info[PathA].build_id = B9
          /\ RemoteOf(PathA).build_id = B10
          /\ FoundFor(PathA)
       \/ /\ local_info[PathA].build_id = B10
          /\ RemoteOf(PathA).build_id = B9
          /\ ~FoundFor(PathA)
          /\ cv_pc = "done"

\* C2: a Legacy record whose remote entry is Modern always gets a finding,
\* tagged Legacy on the local side only.
C2_LegacyLocalModernRemote ==
    \A path \in Entered :
        (IsLegacy(path) /\ RemoteOf(path).old_version = "False") =>
            /\ path \in Compared
            /\ FoundFor(path)
            /\ FindingOf(path).local_old_version
            /\ ~FindingOf(path).online_old_version

\* the finding is there even though both sides carry the same version
C2_Witness ==
    /\ PathA \in Compared
    /\ IsLegacy(PathA)
    /\ RemoteOf(PathA).old_version = "False"
    /\ local_info[PathA].version_name = RemoteOf(PathA).version_name
    /\ FoundFor(PathA)

\* C3: Legacy record, Legacy remote: nothing when the remote version is
\* unknown; nothing when the versions co-occur in a group of the product
\* id; else a finding exactly when the version strings differ as they are,
\* tagged Legacy on both sides.
C3_LegacyBoth ==
    \A path \in Entered :
        (IsLegacy(path) /\ RemoteOf(path).old_version = "True") =>
            LET local_version  == OrUnknown(local_info[path].version_name)
                online_version == RemoteOf(path).version_name
            IN  /\ path \in Compared
                /\ online_version = None => ~FoundFor(path)
                /\ (online_version # None
                    /\ CoOccur(PidOf(path), local_version, online_version))
                       => ~FoundFor(path)
                /\ (online_version # None
                    /\ ~CoOccur(PidOf(path), local_version, online_version))
                       => (FoundFor(path) <=> local_version # online_version)
                /\ FoundFor(path) =>
                       /\ FindingOf(path).local_old_version
                       /\ FindingOf(path).online_old_version

\* "1.2." against "1.2" is an update between two Legacy sides, although
\* the two normalize to the same string
C3_Witness ==
    /\ PathA \in Compared
    /\ IsLegacy(PathA)
    /\ RemoteOf(PathA).old_version = "True"
    /\ local_info[PathA].version_name = V12dot
    /\ RemoteOf(PathA).version_name = V12
    /\ FoundFor(PathA)
    /\ FindingOf(PathA).online_old_version

\* C4: Modern record with a known version, a build id missing on either
\* side, and a remote version to compare with: nothing when the versions
\* co-occur in a group of the product id; else a finding exactly when the
\* normalized versions differ ignoring case.
C4_VersionComparison ==
    \A path \in Entered :
        (/\ IsModern(path)
         /\ ~BothBuildsPresent(path)
         /\ ~IsMissing(local_info[path].version_name)
         /\ RemoteOf(path).version_name # None) =>
            LET local_version  == local_info[path].version_name
                online_version == RemoteOf(path).version_name
            IN  /\ path \in Compared
                /\ CoOccur(PidOf(path), local_version, online_version)
                       => ~FoundFor(path)
                /\ ~CoOccur(PidOf(path), local_version, online_version) =>
                       (FoundFor(path) <=>
                           Lower(normalize_version_name(local_version))
                               # Lower(normalize_version_name(online_version)))

\* "1.2" against "1.2.0" with no group configured is an update
C4_Witness ==
    /\ PathA \in Compared
    /\ IsModern(PathA)
    /\ local_info[PathA].build_id = None
    /\ local_info[PathA].version_name = V12
    /\ RemoteOf(PathA).version_name = V120
    /\ Match_Versions = <<>>
    /\ FoundFor(PathA)

Unverifiable(path) ==
    /\ IsModern(path)
    /\ local_info[path].build_id = None
    /\ local_info[path].version_name = None

CannotCompareLogged(path) ==
    \E i \in 1..Len(log) :
        /\ IsErrorLevel(log[i].level)
        /\ log[i].msg = "cannot_compare"
        /\ log[i].product_id = PidOf(path)

\* C5: when reconciliation has run to its end, every Modern record with
\* neither build id nor version has no finding and an error-level
\* "cannot compare" event naming its product, and the exit code is not 0.
C5_UnverifiableReported ==
    cv_pc = "done" =>
        \A path \in DOMAIN local_info :
            Unverifiable(path) =>
                /\ ~FoundFor(path)
                /\ CannotCompareLogged(path)
                /\ error_occurred

\* C6: comparing a Legacy record whose product id was not found remotely
\* records nothing, logs nothing at error level and leaves the findings
\* as they were.
C6_NotFoundSkipped ==
    [][(/\ cv_pc = "loop"
        /\ IsLegacy(Head(sorted_local_info))
        /\ RemoteOf(Head(sorted_local_info)) = NotFoundEntry)
       => /\ new_versions_dict' = new_versions_dict
          /\ compared' = Append(compared, Head(sorted_local_info))
          /\ \A i \in (Len(log) + 1)..Len(log') :
                 ~IsErrorLevel(log'[i].level)
          /\ SubSeq(log', 1, Len(log)) = log]_vars

\* the skipped record came after a finding for the other record
C6_Witness ==
    /\ Len(compared) = 2
    /\ IsLegacy(compared[2])
    /\ RemoteOf(compared[2]) = NotFoundEntry
    /\ FoundFor(compared[1])
    /\ Len(new_versions_dict) = 1

\* the calls of get_local_version_from_gog made for an installer
LookupsFor(path) == {i \in 1..Len(lookups) : lookups[i].path = path}

\* an update was found by the builds and the local version is unknown
NeedsBackfill(path) ==
    /\ IsModern(path)
    /\ BothBuildsPresent(path)
    /\ IntOfDigits(RemoteOf(path).build_id, 0)
           > IntOfDigits(local_info[path].build_id, 0)
    /\ IsMissing(local_info[path].version_name)

\* the catalog's version for a build, "Unknown" when the catalog has no
\* such build or could not be fetched
CatalogVersion(gog_dict, build_id) ==
    LET hits == IF gog_dict.status = "failed" THEN {}
                ELSE {i \in 1..Len(gog_dict.items) :
                          gog_dict.items[i].build_id = build_id}
    IN  IF hits = {} THEN UNKNOWN
        ELSE gog_dict.items[CHOOSE i \in hits :
                                \A j \in hits : i <= j].version_name

\* C25: compare_new_versions looks the local version up by the build id
\* exactly once when the builds gave an update and the local version is
\* unknown, and never otherwise; the finding then carries the catalog's
\* version for the local build, or "Unknown".
C25_BackfillOnce ==
    /\ \A path \in Compared :
           Cardinality(LookupsFor(path)) =
               IF NeedsBackfill(path) THEN 1 ELSE 0
    /\ \A i \in 1..Len(lookups) :
           /\ lookups[i].path \in Compared
           /\ FoundFor(lookups[i].path)
           /\ FindingOf(lookups[i].path).local_version =
                  CatalogVersion(lookups[i].gog_dict,
                                 local_info[lookups[i].path].build_id)

\* a lookup whose catalog lists the local build after a newer one: the
\* finding has the version of the local build
C25_Witness ==
    \E i \in 1..Len(lookups) :
        /\ lookups[i].gog_dict.status = "ok"
        /\ Len(lookups[i].gog_dict.items) = 2
        /\ lookups[i].gog_dict.items[2].build_id =
               local_info[lookups[i].path].build_id
        /\ FindingOf(lookups[i].path).local_version = V12

\* the installers sort_local_info has handed to the loop of compare_versions
Sorted ==
    Compared \cup {sorted_local_info[i] : i \in 1..Len(sorted_local_info)}
             \cup (IF raised \in Paths THEN {raised} ELSE {})

\* C28: sort_local_info returns every record it was given, so every record
\* of local_info is compared, also when two records carry one product name
\* or a product name is missing.
C28_SortKeepsEveryRecord ==
    cv_pc # "sort" => Sorted = DOMAIN local_info

\* C29: the remote generation of a finding is the generation online_info
\* records for its product id.
C29_FindingHasRemoteGeneration ==
    \A path \in Compared :
        FoundFor(path) =>
            (FindingOf(path).online_old_version
                 <=> RemoteOf(path).old_version = "True")

\* C12: a Modern record with a known version whose product id was not
\* found remotely is skipped: its comparison returns (no exception leaves
\* compare_versions at that record) and records no finding.
C12_ModernNotFoundSkipped ==
    \A path \in Entered :
        (/\ IsModern(path)
         /\ ~IsMissing(local_info[path].version_name)
         /\ RemoteOf(path) = NotFoundEntry) =>
            /\ path \in Compared
            /\ raised # path
            /\ ~FoundFor(path)

-----------------------------------------------------------------------------
(* dedup_installers_id *)

DedupPathB == <<"B">>

DedupPathA == <<"a">>

DedupPathAB == <<"a", "b">>

DedupPathb == <<"b">>

DedupPaths == {DedupPathB, DedupPathA, DedupPathAB, DedupPathb}

P3 == <<"3">>

DedupIds == {P1, P2, P3}

\* every path -> product id mapping over the paths
InstallerDicts == UNION {[S -> DedupIds] : S \in SUBSET DedupPaths}

\* a faulty variant of SortedKeys: the keys scanned in descending order
ReverseSortedKeys(d) ==
    LET keys == SortedStrs(DOMAIN d)
    IN  [i \in 1..Len(keys) |-> keys[Len(keys) + 1 - i]]

\* sorted(installers_dict.keys())
SortedKeys(d) == SortedStrs(DOMAIN d)

\* set(installers_dict.values())
IdListOf(d) == {d[path] : path \in DOMAIN d}

\* deduped_installers_dict_aux[installer_path] = {"product_id": product_id}
AuxSet(aux, installer_path, pid) ==
    IF \E i \in 1..Len(aux) : aux[i].path = installer_path
    THEN [i \in 1..Len(aux) |->
             IF aux[i].path = installer_path
             THEN [path |-> installer_path, product_id |-> pid]
             ELSE aux[i]]
    ELSE Append(aux, [path |-> installer_path, product_id |-> pid])

\* the copy of the aux dict in the order of sorted(aux.keys())
SortedCopy(aux) ==
    LET keys == SortedStrs({aux[i].path : i \in 1..Len(aux)})
    IN  [k \in 1..Len(keys) |->
            aux[CHOOSE i \in 1..Len(aux) : aux[i].path = keys[k]]]

InitDedup ==
    /\ CompareIdle /\ MainGameIdle /\ SearchIdle /\ HyphenIdle
    /\ NormIdle /\ RunIdle /\ ResolveIdle
    /\ installers_dict \in InstallerDicts
    /\ id_list = IdListOf(installers_dict)
    /\ dd_product_id = None
    /\ scan_at = 0
    /\ deduped_installers_dict_aux = <<>>
    /\ deduped_installers_dict = <<>>
    /\ dd_pc = "outer"

\* for product_id in id_list: found = False; the set is iterated in an
\* order the program does not fix
DedupNextId ==
    /\ dd_pc = "outer"
    /\ \E pid \in id_list :
           /\ dd_product_id' = pid
           /\ id_list' = id_list \ {pid}
    /\ scan_at' = 1
    /\ dd_pc' = "inner"
    /\ UNCHANGED <<installers_dict, deduped_installers_dict_aux,
                   deduped_installers_dict>>
    /\ UNCHANGED <<cmpVars, mainGameVars, searchVars, hyphenVars,
                   normVars, runVars, resolveVars>>

\* one step of the for loop inside while not found; a for loop that ends
\* with found still False is started again by the while
DedupScan ==
    /\ dd_pc = "inner"
    /\ LET keys == SortedKeys(installers_dict)
       IN  IF scan_at > Len(keys)
           THEN /\ scan_at' = 1
                /\ UNCHANGED <<deduped_installers_dict_aux, dd_pc>>
           ELSE IF installers_dict[keys[scan_at]] = dd_product_id
           THEN /\ deduped_installers_dict_aux' =
                       AuxSet(deduped_installers_dict_aux, keys[scan_at],
                              dd_product_id)
                /\ dd_pc' = "outer"
                /\ UNCHANGED scan_at
           ELSE /\ scan_at' = scan_at + 1
                /\ UNCHANGED <<deduped_installers_dict_aux, dd_pc>>
    /\ UNCHANGED <<installers_dict, id_list, dd_product_id,
                   deduped_installers_dict>>
    /\ UNCHANGED <<cmpVars, mainGameVars, searchVars, hyphenVars,
                   normVars, runVars, resolveVars>>

\* the copy in sorted key order, and the return
DedupReturn ==
    /\ dd_pc = "outer"
    /\ id_list = {}
    /\ deduped_installers_dict' = SortedCopy(deduped_installers_dict_aux)
    /\ dd_pc' = "done"
    /\ UNCHANGED <<installers_dict, id_list, dd_product_id, scan_at,
                   deduped_installers_dict_aux>>
    /\ UNCHANGED <<cmpVars, mainGameVars, searchVars, hyphenVars,
                   normVars, runVars, resolveVars>>

NextDedup ==
    \/ DedupNextId
    \/ DedupScan
    \/ DedupReturn

SpecDedup == InitDedup /\ [][NextDedup]_vars

-----------------------------------------------------------------------------
(* Properties of dedup_installers_id *)

PathsOf(pid) == {path \in DOMAIN installers_dict : installers_dict[path] = pid}

SmallestPath(S) == CHOOSE p \in S : \A q \in S \ {p} : StrLess(p, q)

ResultPaths ==
    {deduped_installers_dict[i].path : i \in 1..Len(deduped_installers_dict)}

\* C7: the search of the inner loop always has a match ahead of it, so the
\* while loop ends within one pass over the keys; and the value returned
\* has only input paths as keys, no key twice, the keys in sorted order, and
\* for each product id of the input exactly one key, the smallest path
\* mapped to that id -- whatever the order in which the ids were taken.
C7_DedupSmallestPath ==
    /\ dd_pc = "inner" =>
           \E k \in scan_at..Len(SortedKeys(installers_dict)) :
               installers_dict[SortedKeys(installers_dict)[k]] = dd_product_id
    /\ dd_pc = "done" =>
           /\ ResultPaths \subseteq DOMAIN installers_dict
           /\ Len(deduped_installers_dict) = Cardinality(ResultPaths)
           /\ \A i \in 1..Len(deduped_installers_dict) :
                  \A j \in 1..Len(deduped_installers_dict) :
                      i < j => StrLess(deduped_installers_dict[i].path,
                                       deduped_installers_dict[j].path)
           /\ \A i \in 1..Len(deduped_installers_dict) :
                  /\ deduped_installers_dict[i].product_id
                         \in IdListOf(installers_dict)
                  /\ deduped_installers_dict[i].path =
                         SmallestPath(PathsOf(
                             deduped_installers_dict[i].product_id))
           /\ \A pid \in IdListOf(installers_dict) :
                  Cardinality({i \in 1..Len(deduped_installers_dict) :
                      deduped_installers_dict[i].product_id = pid}) = 1

\* a run that returned, from an input with two product ids of which one
\* has several paths, taken in an order other than the sorted one
C7_Witness ==
    /\ dd_pc = "done"
    /\ Cardinality(IdListOf(installers_dict)) >= 2
    /\ \E pid \in IdListOf(installers_dict) : Cardinality(PathsOf(pid)) >= 2
    /\ Len(deduped_installers_dict_aux) >= 2
    /\ StrLess(deduped_installers_dict_aux[2].product_id,
               deduped_installers_dict_aux[1].product_id)

-----------------------------------------------------------------------------
(* is_main_game *)

\* str(rootGameId)
PyStr(value) == IF value = None THEN <<"N", "o", "n", "e">> ELSE value

\* installer_info.get(key) gives None for a key that is absent or null
DependencyGameIds == {None, <<>>, P3}

GameIds == {None, P1, P2}

InstallerInfos ==
    [dependencyGameId : DependencyGameIds, gameId : GameIds,
     rootGameId : GameIds]

\* the keys of DATA.Goodies_ID; a Goodies_ID of None excludes nothing, as
\* the empty one
GoodiesChoices == {{}, {P1}, {P1, P2}}

is_main_game(info) ==
    IF info.dependencyGameId # None
    THEN IF info.dependencyGameId # <<>> THEN FALSE ELSE TRUE
    ELSE IF info.gameId # info.rootGameId THEN FALSE
    ELSE IF PyStr(info.rootGameId) \in Goodies_ID THEN FALSE
    ELSE TRUE

InitMainGame ==
    /\ CompareIdle /\ DedupIdle /\ SearchIdle /\ HyphenIdle
    /\ NormIdle /\ RunIdle /\ ResolveIdle
    /\ installer_info \in InstallerInfos
    /\ Goodies_ID \in GoodiesChoices
    /\ is_main = "None"
    /\ mg_pc = "call"

IsMainGame ==
    /\ mg_pc = "call"
    /\ is_main' = IF is_main_game(installer_info) THEN "True" ELSE "False"
    /\ mg_pc' = "done"
    /\ UNCHANGED <<installer_info, Goodies_ID>>
    /\ UNCHANGED <<cmpVars, dedupVars, searchVars, hyphenVars,
                   normVars, runVars, resolveVars>>

NextMainGame == IsMainGame

SpecMainGame == InitMainGame /\ [][NextMainGame]_vars

-----------------------------------------------------------------------------
(* Properties of is_main_game *)

\* C8: a descriptor is included if and only if its dependencyGameId is
\* absent or empty, its gameId equals its rootGameId, and its rootGameId is
\* not a goodie id.
C8_BaseGameRules ==
    mg_pc = "done" =>
        (is_main = "True" <=>
            /\ installer_info.dependencyGameId \in {None, <<>>}
            /\ installer_info.gameId = installer_info.rootGameId
            /\ PyStr(installer_info.rootGameId) \notin Goodies_ID)

-----------------------------------------------------------------------------
(* search_product_id_on_gog *)

GogFile == "gog_installer_update_checker.py"

MainFile == "main.py"

SourceFiles == {GogFile, MainFile}

\* "\b" in a str literal that is not raw: the backspace character
BS == "\\b"

\* str.split(): the maximal runs of non-whitespace characters
RECURSIVE SplitFrom(_, _)
SplitFrom(s, word) ==
    IF s = <<>> THEN (IF word = <<>> THEN <<>> ELSE <<word>>)
    ELSE IF IsSpace(s[1])
    THEN (IF word = <<>> THEN <<>> ELSE <<word>>) \o SplitFrom(Tail(s), <<>>)
    ELSE SplitFrom(Tail(s), Append(word, s[1]))

Split(s) == SplitFrom(s, <<>>)

StartsWith(s, prefix) ==
    /\ Len(prefix) <= Len(s)
    /\ SubSeq(s, 1, Len(prefix)) = prefix

\* str.replace(old, new): every occurrence, left to right, not overlapping
RECURSIVE Replace(_, _, _)
Replace(s, old, new) ==
    IF s = <<>> THEN <<>>
    ELSE IF StartsWith(s, old)
    THEN new \o Replace(SubSeq(s, Len(old) + 1, Len(s)), old, new)
    ELSE <<s[1]>> \o Replace(Tail(s), old, new)

\* re.sub(pattern, repl, s, 1) for a pattern of literal characters
RECURSIVE SubFirst(_, _, _)
SubFirst(s, pattern, repl) ==
    IF s = <<>> THEN <<>>
    ELSE IF StartsWith(s, pattern)
    THEN repl \o SubSeq(s, Len(pattern) + 1, Len(s))
    ELSE <<s[1]>> \o SubFirst(Tail(s), pattern, repl)

\* the replacement of one numeral, as each source file writes it
ReplaceNumeral(file, name, numeral, value) ==
    IF file = GogFile
    THEN SubFirst(name, <<BS>> \o numeral \o <<BS>>, StrOfInt(value))
    ELSE Replace(name, numeral, StrOfInt(value))

Contains(seq, x) == \E i \in 1..Len(seq) : seq[i] = x

\* for numeral in Roman_Numerals: if numeral in product_name.split(): ...
RECURSIVE ReplaceNumerals(_, _, _, _)
ReplaceNumerals(file, name, numerals, found_numeral) ==
    IF numerals = <<>>
    THEN [product_name |-> name, found_numeral |-> found_numeral]
    ELSE IF Contains(Split(name), Head(numerals).numeral)
    THEN ReplaceNumerals(file,
                         ReplaceNumeral(file, name, Head(numerals).numeral,
                                        Head(numerals).value),
                         Tail(numerals), TRUE)
    ELSE ReplaceNumerals(file, name, Tail(numerals), found_numeral)

NumeralI == <<"I">>

NumeralII == <<"I", "I">>

Roman(numeral, value) == [numeral |-> numeral, value |-> value]

\* DATA.Roman_Numerals in the order of the dict; a Roman_Numerals of None
\* is skipped as the empty one is
NumeralChoices ==
    {<<>>, <<Roman(NumeralII, 2)>>, <<Roman(NumeralI, 1), Roman(NumeralII, 2)>>}

GameII == <<"G", "a", "m", "e", " ", "I", "I">>

Game2 == <<"G", "a", "m", "e", " ", "2">>

GameI == <<"G", "a", "m", "e", " ", "I">>

Game == <<"G", "a", "m", "e">>

IandII == <<"I", " ", "I", "I">>

SearchNames == {GameII, GameI, Game, NumeralII, IandII}

Product(id, title) == [id |-> id, title |-> title]

SearchResult(products) ==
    [status |-> "ok", totalGamesFound |-> Len(products), products |-> products]

SearchFailed == [status |-> "failed", totalGamesFound |-> 0, products |-> <<>>]

\* what download_data can give for a search
SearchResponses ==
    {SearchFailed,
     SearchResult(<<>>),
     SearchResult(<<Product(7, <<"X">>)>>),
     SearchResult(<<Product(7, <<"X">>),
                    Product(8, <<"G", "A", "M", "E", " ", "I", "I">>)>>),
     SearchResult(<<Product(7, <<"X">>),
                    Product(8, <<"G", "A", "M", "E", " ", "2">>),
                    Product(9, Game2)>>)}

\* the depth at which the interpreter raises RecursionError
RecursionLimit == 4

SearchEvent(level, msg, name) ==
    [level |-> level, msg |-> msg, product_name |-> name]

\* the products whose title equals the name, both lower()
TitleMatches(gog_info, name) ==
    {i \in 1..Len(gog_info.products) :
        Lower(name) = Lower(gog_info.products[i].title)}

\* the last candidate whose title matches
LastTitleMatch(gog_info, name) ==
    gog_info.products[CHOOSE i \in TitleMatches(gog_info, name) :
                          \A j \in TitleMatches(gog_info, name) : i >= j]

FirstTitleMatch(gog_info, name) ==
    gog_info.products[CHOOSE i \in TitleMatches(gog_info, name) :
                          \A j \in TitleMatches(gog_info, name) : i <= j]

InitSearch ==
    /\ CompareIdle /\ DedupIdle /\ MainGameIdle /\ HyphenIdle
    /\ NormIdle /\ RunIdle /\ ResolveIdle
    /\ source_file \in SourceFiles
    /\ Roman_Numerals \in NumeralChoices
    /\ sr_product_name \in SearchNames
    /\ searches = <<>>
    /\ found_id = None
    /\ search_log = <<>>
    /\ responses = <<>>
    /\ sr_pc = "call"

\* one call of search_product_id_on_gog, up to its return or to the call
\* of itself
SearchProductIdOnGog ==
    /\ sr_pc = "call"
    /\ Len(searches) < RecursionLimit
    /\ searches' = Append(searches, sr_product_name)
    /\ \E gog_info \in SearchResponses :
         LET downloading ==
                 Append(search_log,
                        SearchEvent("INFO", "downloading_search_data",
                                    sr_product_name))
             r == ReplaceNumerals(source_file, sr_product_name,
                                  Roman_Numerals, FALSE)
         IN  /\ responses' = Append(responses, gog_info)
             /\ IF gog_info.status = "failed"
                THEN /\ search_log' =
                            Append(downloading,
                                   SearchEvent("ERROR", "download_error", None))
                     /\ found_id' = None
                     /\ sr_pc' = "done"
                     /\ UNCHANGED sr_product_name
                ELSE IF gog_info.totalGamesFound = 0
                THEN IF r.found_numeral
                     THEN /\ search_log' =
                                 Append(downloading,
                                        SearchEvent("INFO", "roman_number_found",
                                                    r.product_name))
                          /\ sr_product_name' = r.product_name
                          /\ UNCHANGED <<found_id, sr_pc>>
                     ELSE /\ search_log' =
                                 Append(downloading,
                                        SearchEvent("WARNING", "no_games_found",
                                                    r.product_name))
                          /\ found_id' = None
                          /\ sr_pc' = "done"
                          /\ UNCHANGED sr_product_name
                ELSE IF gog_info.totalGamesFound = 1
                THEN /\ search_log' =
                            Append(downloading,
                                   SearchEvent("INFO", "single_game_found",
                                               sr_product_name))
                     /\ found_id' = StrOfInt(gog_info.products[1].id)
                     /\ sr_pc' = "done"
                     /\ UNCHANGED sr_product_name
                ELSE IF TitleMatches(gog_info, sr_product_name) # {}
                THEN /\ search_log' =
                            Append(downloading,
                                   SearchEvent("INFO", "product_id_found",
                                               sr_product_name))
                     /\ found_id' =
                            StrOfInt(FirstTitleMatch(gog_info,
                                                     sr_product_name).id)
                     /\ sr_pc' = "done"
                     /\ UNCHANGED sr_product_name
                ELSE /\ search_log' =
                            Append(downloading,
                                   SearchEvent("WARNING", "no_games_found",
                                               sr_product_name))
                     /\ found_id' = None
                     /\ sr_pc' = "done"
                     /\ UNCHANGED sr_product_name
    /\ UNCHANGED <<source_file, Roman_Numerals>>
    /\ UNCHANGED <<cmpVars, dedupVars, mainGameVars, hyphenVars,
                   normVars, runVars, resolveVars>>

\* the call of itself at the depth the interpreter allows no more
SearchRecursionError ==
    /\ sr_pc = "call"
    /\ Len(searches) = RecursionLimit
    /\ sr_pc' = "raised"
    /\ UNCHANGED <<source_file, Roman_Numerals, sr_product_name, searches,
                   found_id, search_log, responses>>
    /\ UNCHANGED <<cmpVars, dedupVars, mainGameVars, hyphenVars,
                   normVars, runVars, resolveVars>>

NextSearch ==
    \/ SearchProductIdOnGog
    \/ SearchRecursionError

SpecSearch == InitSearch /\ [][NextSearch]_vars

-----------------------------------------------------------------------------
(* Properties of search_product_id_on_gog *)

RECURSIVE Join(_)
Join(words) ==
    IF words = <<>> THEN <<>>
    ELSE IF Len(words) = 1 THEN words[1]
    ELSE words[1] \o <<" ">> \o Join(Tail(words))

DecimalOf(word) ==
    IF \E i \in 1..Len(Roman_Numerals) : Roman_Numerals[i].numeral = word
    THEN StrOfInt(Roman_Numerals[CHOOSE i \in 1..Len(Roman_Numerals) :
                                     Roman_Numerals[i].numeral = word].value)
    ELSE word

\* the name with each word that is a configured numeral replaced by the
\* numeral's decimal value
WithDecimals(name) ==
    Join([i \in 1..Len(Split(name)) |-> DecimalOf(Split(name)[i])])

\* C9: one installer's resolution issues at most two searches, and a second
\* search is the retry of the first with the numeral replaced by its
\* decimal value; the resolution never ends in RecursionError.
C9_SingleRetry ==
    /\ Len(searches) <= 2
    /\ Len(searches) = 2 => searches[2] = WithDecimals(searches[1])
    /\ sr_pc # "raised"

\* the response of the search that returned
LastResponse == responses[Len(responses)]

\* the name the search that returned was made with
LastSearched == searches[Len(searches)]

\* the title of candidate i equals the searched name, ignoring case
TitleEquals(i) == Lower(LastResponse.products[i].title) = Lower(LastSearched)

\* C21: for a response that did not fail, the search returns the id of the
\* only candidate when one result is reported; with more results, the id of
\* the first candidate, in response order, whose title equals the searched
\* name ignoring case, and None when no title does.
C21_SearchPicksCandidate ==
    (sr_pc = "done" /\ LastResponse.status = "ok") =>
        LET n == LastResponse.totalGamesFound
        IN  /\ n = 1 => found_id = StrOfInt(LastResponse.products[1].id)
            /\ n > 1 =>
                   \/ \E i \in 1..n :
                          /\ TitleEquals(i)
                          /\ \A j \in 1..(i - 1) : ~TitleEquals(j)
                          /\ found_id = StrOfInt(LastResponse.products[i].id)
                   \/ /\ \A i \in 1..n : ~TitleEquals(i)
                      /\ found_id = None

\* three results whose second and third titles both equal the searched
\* name ignoring case: the second one's id was returned
C21_Witness ==
    /\ sr_pc = "done"
    /\ LastResponse.totalGamesFound = 3
    /\ TitleEquals(2) /\ TitleEquals(3) /\ ~TitleEquals(1)
    /\ found_id = StrOfInt(LastResponse.products[2].id)

\* C23: a retry is made with the name in which every configured numeral
\* that is a whole word stands replaced by its decimal value and nothing
\* else is changed, and only when that changed the name.
C23_NumeralSubstitution ==
    \A k \in 1..(Len(searches) - 1) :
        /\ searches[k + 1] = WithDecimals(searches[k])
        /\ searches[k + 1] # searches[k]

\* the same for the searches of main.py alone
C23_NumeralSubstitutionMain ==
    source_file = MainFile => C23_NumeralSubstitution

-----------------------------------------------------------------------------
(* get_product_id: the hyphen-spacing loop *)

MaxNameLen == 4

MaxPasses == 6

HyphenAlphabet == {"f", "L", "-", " ", "1"}

\* the product names the loop is run on
HyphenNames ==
    UNION {[1..n -> HyphenAlphabet] : n \in 0..MaxNameLen}

\* [a-zá-úñ] under re.IGNORECASE
IsLetter(c) == c \in {"f", "L", "a", "b", "e", "m", "G", "I"}

\* re.search(r"[a-zá-úñ]-", product_name, flags=re.IGNORECASE)
HyphenSearch(name) ==
    \E i \in 1..(Len(name) - 1) : IsLetter(name[i]) /\ name[i + 1] = "-"

\* re.sub(r"([a-zá-úñ])-\s", r"\1 - ", product_name, flags=re.IGNORECASE)
RECURSIVE HyphenSub(_)
HyphenSub(name) ==
    IF name = <<>> THEN <<>>
    ELSE IF /\ Len(name) >= 3
            /\ IsLetter(name[1])
            /\ name[2] = "-"
            /\ IsSpace(name[3])
    THEN <<name[1], " ", "-", " ">> \o HyphenSub(SubSeq(name, 4, Len(name)))
    ELSE <<name[1]>> \o HyphenSub(Tail(name))

InitHyphen ==
    /\ CompareIdle /\ DedupIdle /\ MainGameIdle /\ SearchIdle
    /\ NormIdle /\ RunIdle /\ ResolveIdle
    /\ raw_name \in HyphenNames
    /\ hy_name = raw_name
    /\ passes = 0
    /\ hy_pc = "loop"

\* the loop's test holds: one pass of the body
HyphenPass ==
    /\ hy_pc = "loop"
    /\ HyphenSearch(hy_name)
    /\ passes < MaxPasses
    /\ hy_name' = HyphenSub(hy_name)
    /\ passes' = passes + 1
    /\ UNCHANGED <<raw_name, hy_pc>>
    /\ UNCHANGED <<cmpVars, dedupVars, mainGameVars, searchVars,
                   normVars, runVars, resolveVars>>

\* the loop's test fails: the loop is left
HyphenExit ==
    /\ hy_pc = "loop"
    /\ ~HyphenSearch(hy_name)
    /\ hy_pc' = "done"
    /\ UNCHANGED <<raw_name, hy_name, passes>>
    /\ UNCHANGED <<cmpVars, dedupVars, mainGameVars, searchVars,
                   normVars, runVars, resolveVars>>

NextHyphen ==
    \/ HyphenPass
    \/ HyphenExit

SpecHyphen == InitHyphen /\ [][NextHyphen]_vars

-----------------------------------------------------------------------------
(* Properties of the hyphen-spacing loop *)

\* the places of the name where a letter is followed by a hyphen
Offending(name) ==
    {i \in 1..(Len(name) - 1) : IsLetter(name[i]) /\ name[i + 1] = "-"}

\* C10: the loop ends after finitely many passes -- a pass repairs at least
\* one of the hyphens that follow a letter, so there are no more passes
\* than such hyphens in the name the loop started with -- and the name the
\* loop ends with is left unchanged by one more application of the repair.
C10_HyphenRepairTerminates ==
    /\ passes <= Cardinality(Offending(raw_name))
    /\ hy_pc = "done" => HyphenSub(hy_name) = hy_name

-----------------------------------------------------------------------------
(* normalize_version_name applied to its own result *)

MaxVersionLen == 4

\* illegal characters (the first two and the last of the tuple),
\* whitespace, underscore, period and an ordinary character
VersionAlphabet == {"#", "!", "$", " ", "_", ".", "a"}

VersionNames == UNION {[1..n -> VersionAlphabet] : n \in 0..MaxVersionLen}

InitNormalize ==
    /\ CompareIdle /\ DedupIdle /\ MainGameIdle /\ SearchIdle /\ HyphenIdle
    /\ RunIdle /\ ResolveIdle
    /\ nv_input \in VersionNames
    /\ nv_results = <<>>
    /\ nv_pc = "call"

\* normalize_version_name(version_name)
NormalizeOnce ==
    /\ nv_pc = "call"
    /\ nv_results' = <<normalize_version_name(nv_input)>>
    /\ nv_pc' = "again"
    /\ UNCHANGED nv_input
    /\ UNCHANGED <<cmpVars, dedupVars, mainGameVars, searchVars, hyphenVars,
                   runVars, resolveVars>>

\* normalize_version_name of the value returned
NormalizeAgain ==
    /\ nv_pc = "again"
    /\ nv_results' = Append(nv_results, normalize_version_name(nv_results[1]))
    /\ nv_pc' = "done"
    /\ UNCHANGED nv_input
    /\ UNCHANGED <<cmpVars, dedupVars, mainGameVars, searchVars, hyphenVars,
                   runVars, resolveVars>>

NextNormalize ==
    \/ NormalizeOnce
    \/ NormalizeAgain

SpecNormalize == InitNormalize /\ [][NextNormalize]_vars

\* C11: normalize_version_name(normalize_version_name(s)) equals
\* normalize_version_name(s) for every version name s.
C11_NormalizeIdempotent ==
    nv_pc = "done" => nv_results[2] = nv_results[1]

-----------------------------------------------------------------------------
(* main and start_processing: one run of the program, from the checks of
   main to the exit code.  get_installers_list, map_product_id and
   dedup_installers_id are one step that yields the de-duplicated
   installers; insert_missing_info, load_online_data and the comparisons
   are one step for each installer. *)

\* what dedup_installers_id returns: path -> product id
DedupedChoices == {<<>>, (PathA :> P1), (PathA :> P1 @@ PathB :> P2)}

\* the content of the data file: Match_Versions and the keys of Goodies_ID
DataFile(match_versions, goodies) ==
    [Match_Versions |-> match_versions, Goodies_ID |-> goodies]

EmptyDataFile == DataFile(<<>>, {})

ValidDataFile == DataFile((P1 :> << <<V12, V120>> >>), {P2})

\* what get_local_info_from_exe reads from the file properties of path
ExeInfo(name, build_id, version_name) ==
    [ProductName |-> name, build_id |-> build_id,
     version_name |-> version_name]

ExeInfos(path) ==
    IF path = PathA
    THEN {ExeInfo(n, b, v) :
              n \in {None, NameB, Nameb}, b \in {None, B9}, v \in {None, V12}}
    ELSE {ExeInfo(n, bv[1], bv[2]) :
              n \in {None, NameB}, bv \in {<<None, None>>, <<B9, V12>>}}

\* the content of the info file: the descriptor is_main_game reads, "name"
\* and "buildId" (None for a key that is absent)
InfoFile(descriptor, name, buildId) ==
    [descriptor |-> descriptor, name |-> name, buildId |-> buildId]

BaseGameInfo(pid) ==
    [dependencyGameId |-> None, gameId |-> pid, rootGameId |-> pid]

DlcInfo(pid) == [dependencyGameId |-> P3, gameId |-> pid, rootGameId |-> P3]

InfoFiles(path, pid) ==
    IF path = PathA
    THEN {InfoFile(d, n, b) :
              d \in {BaseGameInfo(pid), DlcInfo(pid)}, n \in {None, Nameb},
              b \in {None, B9}}
    ELSE {InfoFile(BaseGameInfo(pid), None, None)}

\* the version get_version_from_filename or get_old_version_from_filename
\* finds in the file name
FilenameVersions(path) == IF path = PathA THEN {None, V12} ELSE {None}

\* how the extraction and the reading of the info file end
ExtractionOutcomes == {"no_info_file", "unreadable", "read"}

\* the body of insert_missing_info's loop after the info file was read and
\* is_main_game returned True: the record with its missing fields filled
FilledRecord(pid, old_installer, exe, info, filename_version) ==
    LET version_name ==
            IF exe.version_name # None THEN exe.version_name
            ELSE filename_version
        build_id ==
            IF old_installer \/ exe.build_id # None THEN exe.build_id
            ELSE info.buildId
        name == IF info.name # None THEN info.name ELSE exe.ProductName
    IN  LocalRecord(pid, name, old_installer, build_id, version_name)

\* the record as get_local_info_from_exe left it
ExeRecord(pid, old_installer, exe) ==
    LocalRecord(pid, exe.ProductName, old_installer, exe.build_id,
                exe.version_name)

\* the events of level WARNING and above that filling the record logs
FillLog(pid, old_installer, exe, filename_version) ==
    IF exe.version_name # None \/ filename_version # None THEN <<>>
    ELSE IF old_installer
    THEN <<Event("ERROR", "no_version_in_filename", pid)>>
    ELSE <<Event("WARNING", "no_version_in_filename", pid)>>

\* the record left in the dict
Pop_Keep(d, key) == d

\* dict.pop(installer_path)
Pop(d, key) == [k \in (DOMAIN d) \ {key} |-> d[k]]

\* d[key] = value
Put(d, key, value) ==
    [k \in (DOMAIN d) \cup {key} |-> IF k = key THEN value ELSE d[k]]

Max(a, b) == IF a >= b THEN a ELSE b

\* an exception that nothing catches: the interpreter prints the traceback
\* and exits with code 1
Uncaught(exception) ==
    /\ traceback' = exception
    /\ exit_code' = 1
    /\ run_pc' = "exited"

\* sys.exit(1)
SysExit ==
    /\ exit_code' = 1
    /\ run_pc' = "exited"
    /\ UNCHANGED traceback

\* the state before main's checks
InitRun ==
    /\ DedupIdle /\ SearchIdle /\ HyphenIdle /\ NormIdle /\ ResolveIdle
    /\ local_info = <<>>
    /\ online_info = <<>>
    /\ Match_Versions = <<>>
    /\ sorted_local_info = <<>>
    /\ compared = <<>>
    /\ new_versions_dict = <<>>
    /\ log = <<>>
    /\ lookups = <<>>
    /\ raised = None
    /\ cv_pc = "sort"
    /\ installer_info = <<>>
    /\ Goodies_ID = {}
    /\ is_main = "None"
    /\ mg_pc = "idle"
    /\ run_pc = "tools"
    /\ exit_code = -1
    /\ traceback = None
    /\ mi_file = GogFile
    /\ installers_dict_deduped = <<>>
    /\ todo = <<>>
    /\ scratch_dirs = {}
    /\ most_scratch_dirs = 0
    /\ extraction_failed = {}
    /\ excluded = {}
    /\ downloads = <<>>
    /\ report = <<>>

runFrame == <<dedupVars, searchVars, hyphenVars, normVars, installer_info,
              is_main, mg_pc, resolveVars>>

\* main: for tool, name in tools
CheckTools ==
    /\ run_pc = "tools"
    /\ \E usable \in BOOLEAN :
           IF usable
           THEN /\ run_pc' = "paths"
                /\ UNCHANGED <<log, exit_code, traceback>>
           ELSE /\ log' = Append(log, Event("CRITICAL", "tool_not_usable",
                                            None))
                /\ SysExit
    /\ UNCHANGED <<local_info, online_info, Match_Versions, sorted_local_info,
                   compared, new_versions_dict, lookups, raised, cv_pc>>
    /\ UNCHANGED <<mi_file, installers_dict_deduped, todo, scratch_dirs,
                   most_scratch_dirs, extraction_failed, excluded, downloads,
                   report, Goodies_ID>>
    /\ UNCHANGED runFrame

\* main: for path in paths
CheckPaths ==
    /\ run_pc = "paths"
    /\ \E directories \in BOOLEAN :
           IF directories
           THEN /\ run_pc' = "data"
                /\ UNCHANGED <<log, exit_code, traceback>>
           ELSE /\ log' = Append(log, Event("CRITICAL", "path_not_usable",
                                            None))
                /\ SysExit
    /\ UNCHANGED <<local_info, online_info, Match_Versions, sorted_local_info,
                   compared, new_versions_dict, lookups, raised, cv_pc>>
    /\ UNCHANGED <<mi_file, installers_dict_deduped, todo, scratch_dirs,
                   most_scratch_dirs, extraction_failed, excluded, downloads,
                   report, Goodies_ID>>
    /\ UNCHANGED runFrame

\* DATA = get_data_content(data_file)
GetDataContent ==
    /\ run_pc = "data"
    /\ \E outcome \in {"missing", "not_json", "invalid", "valid"} :
           CASE outcome = "missing" ->
                    /\ log' = Append(log, Event("WARNING", "no_data_file",
                                                None))
                    /\ Match_Versions' = EmptyDataFile.Match_Versions
                    /\ Goodies_ID' = EmptyDataFile.Goodies_ID
                    /\ run_pc' = "installers"
                    /\ UNCHANGED <<exit_code, traceback>>
             [] outcome = "not_json" ->
                    /\ log' = Append(log, Event("ERROR", "data_file_not_json",
                                                None))
                    /\ SysExit
                    /\ UNCHANGED <<Match_Versions, Goodies_ID>>
             [] outcome = "invalid" ->
                    /\ log' = Append(log, Event("CRITICAL",
                                                "data_file_invalid", None))
                    /\ SysExit
                    /\ UNCHANGED <<Match_Versions, Goodies_ID>>
             [] outcome = "valid" ->
                    /\ Match_Versions' = ValidDataFile.Match_Versions
                    /\ Goodies_ID' = ValidDataFile.Goodies_ID
                    /\ run_pc' = "installers"
                    /\ UNCHANGED <<log, exit_code, traceback>>
    /\ UNCHANGED <<local_info, online_info, sorted_local_info, compared,
                   new_versions_dict, lookups, raised, cv_pc>>
    /\ UNCHANGED <<mi_file, installers_dict_deduped, todo, scratch_dirs,
                   most_scratch_dirs, extraction_failed, excluded, downloads,
                   report>>
    /\ UNCHANGED runFrame

\* start_processing up to insert_missing_info: get_installers_list, the
\* test for no installers, map_product_id and dedup_installers_id
GetInstallers ==
    /\ run_pc = "installers"
    /\ \E outcome \in {"no_executables", "no_installers", "installers"} :
           CASE outcome = "no_executables" ->
                    \* get_installers_list returns None and len(None) raises
                    /\ log' = Append(log, Event("ERROR", "no_executables",
                                                None))
                    /\ Uncaught(<<"TypeError">>)
                    /\ UNCHANGED <<installers_dict_deduped, todo, local_info>>
             [] outcome = "no_installers" ->
                    /\ log' = Append(log, Event("CRITICAL", "no_installers",
                                                None))
                    /\ SysExit
                    /\ UNCHANGED <<installers_dict_deduped, todo, local_info>>
             [] outcome = "installers" ->
                    \E deduped \in DedupedChoices :
                        /\ log' = log
                        /\ installers_dict_deduped' = deduped
                        /\ local_info' =
                               [path \in DOMAIN deduped |->
                                    [product_id |-> deduped[path]]]
                        /\ todo' = SortedStrs(DOMAIN deduped)
                        /\ run_pc' = IF DOMAIN deduped = {} THEN "compare"
                                     ELSE "enrich"
                        /\ UNCHANGED <<exit_code, traceback>>
    /\ UNCHANGED <<online_info, Match_Versions, sorted_local_info, compared,
                   new_versions_dict, lookups, raised, cv_pc>>
    /\ UNCHANGED <<mi_file, scratch_dirs, most_scratch_dirs,
                   extraction_failed, excluded, downloads, report,
                   Goodies_ID>>
    /\ UNCHANGED runFrame

\* insert_missing_info: the body of the loop for one installer.  In
\* gog_installer_update_checker.py the scratch directory is made first and
\* removed in a finally clause; in main.py it is made after the file
\* properties were read and removed by the last statements of the body.
InsertMissingInfo ==
    /\ run_pc = "enrich"
    /\ LET installer_path == Head(todo)
           pid == installers_dict_deduped[installer_path]
           made == scratch_dirs \cup {installer_path}
           \* the scratch directories after the body was left early
           left_early == IF mi_file = GogFile THEN scratch_dirs ELSE made
           \* the next installer, or the return to start_processing, whose
           \* get_online_data goes over sorted(local_info)
           continue ==
               /\ todo' = IF Len(todo) = 1 THEN SortedStrs(DOMAIN local_info')
                          ELSE Tail(todo)
               /\ run_pc' = IF Len(todo) > 1 THEN "enrich"
                            ELSE IF DOMAIN local_info' = {} THEN "compare"
                            ELSE "online"
               /\ UNCHANGED <<exit_code, traceback>>
       IN  \E old_installer \in BOOLEAN, exe_read \in BOOLEAN,
              exe \in ExeInfos(installer_path),
              outcome \in ExtractionOutcomes,
              info \in InfoFiles(installer_path, pid),
              filename_version \in FilenameVersions(installer_path) :
             IF ~exe_read
             THEN \* get_exe_info returns None: exe_info.ProductName raises
                  \* in one file, exe_info["ProductName"] in the other
                  /\ log' = Append(log, Event("ERROR", "exe_info_error", pid))
                  /\ Uncaught(IF mi_file = GogFile
                              THEN <<"AttributeError">>
                              ELSE <<"TypeError">>)
                  /\ most_scratch_dirs' =
                         IF mi_file = GogFile
                         THEN Max(most_scratch_dirs, Cardinality(made))
                         ELSE most_scratch_dirs
                  /\ UNCHANGED <<local_info, scratch_dirs, extraction_failed,
                                 excluded, todo>>
             ELSE
               /\ most_scratch_dirs' =
                      Max(most_scratch_dirs, Cardinality(made))
               /\ CASE outcome = "no_info_file" ->
                         /\ log' = Append(log, Event("ERROR",
                                              "info_file_not_extracted", pid))
                         /\ local_info' =
                                Put(local_info, installer_path,
                                    ExeRecord(pid, old_installer, exe))
                         /\ extraction_failed' =
                                extraction_failed \cup {installer_path}
                         /\ scratch_dirs' = left_early
                         /\ continue
                         /\ UNCHANGED excluded
                    [] outcome = "unreadable" ->
                         \* json.load raises on the info file
                         /\ local_info' =
                                Put(local_info, installer_path,
                                    ExeRecord(pid, old_installer, exe))
                         /\ scratch_dirs' = left_early
                         /\ Uncaught(<<"JSONDecodeError">>)
                         /\ UNCHANGED <<log, extraction_failed, excluded,
                                        todo>>
                    [] outcome = "read" ->
                         IF ~is_main_game(info.descriptor)
                         THEN /\ local_info' =
                                     Pop(Put(local_info, installer_path,
                                             ExeRecord(pid, old_installer,
                                                       exe)),
                                         installer_path)
                              /\ excluded' = excluded \cup {installer_path}
                              /\ scratch_dirs' = left_early
                              /\ continue
                              /\ UNCHANGED <<log, extraction_failed>>
                         ELSE /\ local_info' =
                                     Put(local_info, installer_path,
                                         FilledRecord(pid, old_installer, exe,
                                                      info, filename_version))
                              /\ log' = log \o FillLog(pid, old_installer,
                                                       exe, filename_version)
                              /\ scratch_dirs' = scratch_dirs
                              /\ continue
                              /\ UNCHANGED <<extraction_failed, excluded>>
    /\ UNCHANGED <<online_info, Match_Versions, sorted_local_info, compared,
                   new_versions_dict, lookups, raised, cv_pc>>
    /\ UNCHANGED <<mi_file, installers_dict_deduped, downloads, report,
                   Goodies_ID>>
    /\ UNCHANGED runFrame

\* an item of the builds response: a build of the current generation, or one
\* that carries a legacy_build_id (an integer)
ModernItem(build_id, version_name) ==
    [build_id |-> build_id, version_name |-> version_name]

LegacyItem(legacy_build_id) == [legacy_build_id |-> legacy_build_id]

\* items[0].get("legacy_build_id") is None
HasLegacyBuildId(item) == "legacy_build_id" \in DOMAIN item

\* the responses to the builds request of a product id
RunBuilds(pid) ==
    IF pid = P1
    THEN {Failed, Ok(<<>>), Ok(<<ModernItem(B10, V120)>>),
          Ok(<<ModernItem(B9, V12)>>), Ok(<<LegacyItem(10)>>)}
    ELSE {Failed, Ok(<<>>), Ok(<<ModernItem(B10, V120)>>)}

\* the responses to the request of get_product_id_from_pack: the product
\* type and the product id in the link of the first included game
PackInfo(product_type, included) ==
    [status |-> "ok", product_type |-> product_type, included |-> included]

PackResponses ==
    {[status |-> "failed"], PackInfo(<<"G", "A", "M", "E">>, None),
     PackInfo(<<"P", "A", "C", "K">>, P2),
     PackInfo(<<"P", "A", "C", "K">>, None)}

\* the product never taken for a pack
get_product_id_from_pack_Never(gog_dict, product_id) == product_id

get_product_id_from_pack(gog_dict, product_id) ==
    IF gog_dict.status = "failed" THEN None
    ELSE IF gog_dict.product_type # <<"P", "A", "C", "K">> THEN product_id
    ELSE gog_dict.included

\* the responses to the builds request of the game a pack includes
RefetchResponses == {Failed, Ok(<<>>), Ok(<<ModernItem(B10, V120)>>)}

\* the responses to the repository request: the version OLD_VERSION_REGEX
\* finds in the executable's name, or None
RepositoryResponses ==
    {[status |-> "failed"], [status |-> "ok", version |-> None],
     [status |-> "ok", version |-> V12]}

get_last_version_old_installer(gog_dict_old) ==
    IF gog_dict_old.status = "failed" THEN None ELSE gog_dict_old.version

\* one call of download_data: the request, the installer it is made for,
\* the response, whether it failed and the "count" of a builds response
Download(kind, product_id, gog_dict, file_path) ==
    [kind |-> kind, product_id |-> product_id, file_path |-> file_path,
     response |-> gog_dict, status |-> gog_dict.status,
     count |-> IF gog_dict.status = "ok" /\ "items" \in DOMAIN gog_dict
               THEN Len(gog_dict.items) ELSE 0]

\* the not-found result left out of online_info
StoreEntry_SkipNotFound(online, product_id, entry) ==
    IF entry = NotFoundEntry THEN online
    ELSE [k \in (DOMAIN online) \cup {product_id} |->
             IF k = product_id THEN entry ELSE online[k]]

\* online_info[product_id] = {...}
StoreEntry(online, product_id, entry) ==
    [k \in (DOMAIN online) \cup {product_id} |->
        IF k = product_id THEN entry ELSE online[k]]

\* load_online_data's requests, in order, for the responses it gets
LoadDownloads(product_id, file_path, builds, pack, refetch, repository) ==
    LET new_product_id == get_product_id_from_pack(pack, product_id)
        refetched ==
            /\ builds.status = "ok"
            /\ builds.items = <<>>
            /\ new_product_id # None
            /\ new_product_id # product_id
        gog_dict == IF refetched THEN refetch ELSE builds
    IN  <<Download("builds", product_id, builds, file_path)>>
        \o (IF builds.status = "ok" /\ builds.items = <<>>
            THEN <<Download("pack", product_id, pack, file_path)>>
            ELSE <<>>)
        \o (IF refetched
            THEN <<Download("refetch", new_product_id, refetch, file_path)>>
            ELSE <<>>)
        \o (IF /\ gog_dict.status = "ok"
               /\ gog_dict.items # <<>>
               /\ HasLegacyBuildId(gog_dict.items[1])
            THEN <<Download("repository", product_id, repository,
                            file_path)>>
            ELSE <<>>)

\* download_data's events for a sequence of requests, and the warning of
\* load_online_data when the builds are not found
LoadLog(calls, product_id, not_found) ==
    LET RECURSIVE events(_)
        events(cs) ==
            IF cs = <<>> THEN <<>>
            ELSE DownloadLog(cs[1], cs[1].product_id) \o events(Tail(cs))
    IN  events(calls)
        \o (IF not_found
            THEN <<Event("WARNING", "builds_not_found", product_id)>>
            ELSE <<>>)

\* get_online_data: load_online_data for one installer of sorted(local_info)
LoadOnlineData ==
    /\ run_pc = "online"
    /\ LET file_path == Head(todo)
           product_id == local_info[file_path].product_id
       IN  \E builds \in RunBuilds(product_id), pack \in PackResponses,
              refetch \in RefetchResponses,
              repository \in RepositoryResponses :
             LET new_product_id == get_product_id_from_pack(pack, product_id)
                 refetched ==
                     /\ builds.status = "ok"
                     /\ builds.items = <<>>
                     /\ new_product_id # None
                     /\ new_product_id # product_id
                 gog_dict == IF refetched THEN refetch ELSE builds
                 calls == LoadDownloads(product_id, file_path, builds, pack,
                                        refetch, repository)
                 returns(entry) ==
                     /\ online_info' =
                            StoreEntry(online_info, product_id, entry)
                     /\ todo' = Tail(todo)
                     /\ run_pc' = IF Len(todo) = 1 THEN "compare"
                                  ELSE "online"
                     /\ UNCHANGED <<exit_code, traceback>>
             IN  /\ downloads' = downloads \o calls
                 /\ IF builds.status = "failed"
                    THEN /\ log' = log \o LoadLog(calls, product_id, FALSE)
                         /\ returns(NotFoundEntry)
                    ELSE IF gog_dict.status = "failed"
                    THEN \* gog_dict is None and gog_dict["count"] raises
                         /\ log' = log \o LoadLog(calls, product_id, FALSE)
                         /\ Uncaught(<<"TypeError">>)
                         /\ UNCHANGED <<online_info, todo>>
                    ELSE IF gog_dict.items = <<>>
                    THEN /\ log' = log \o LoadLog(calls, product_id, TRUE)
                         /\ returns(NotFoundEntry)
                    ELSE IF ~HasLegacyBuildId(gog_dict.items[1])
                    THEN /\ log' = log \o LoadLog(calls, product_id, FALSE)
                         /\ returns(OnlineEntry(gog_dict.items[1].version_name,
                                                gog_dict.items[1].build_id,
                                                "False"))
                    ELSE /\ log' = log \o LoadLog(calls, product_id, FALSE)
                         /\ returns(OnlineEntry(
                                get_last_version_old_installer(repository),
                                StrOfInt(gog_dict.items[1].legacy_build_id),
                                "True"))
    /\ UNCHANGED <<local_info, Match_Versions, sorted_local_info, compared,
                   new_versions_dict, lookups, raised, cv_pc>>
    /\ UNCHANGED <<mi_file, installers_dict_deduped, scratch_dirs,
                   most_scratch_dirs, extraction_failed, excluded, report,
                   Goodies_ID>>
    /\ UNCHANGED runFrame

\* compare_versions, called by start_processing
CompareVersions ==
    /\ run_pc = "compare"
    /\ \/ SortLocalInfo
       \/ CompareOldVersions
       \/ CompareNewVersions

\* an exception raised in compare_versions reaches the top of main
Traceback ==
    /\ run_pc = "compare"
    /\ cv_pc = "raised"
    /\ Uncaught(<<"TypeError">>)
    /\ UNCHANGED cmpVars
    /\ UNCHANGED <<mi_file, installers_dict_deduped, todo, scratch_dirs,
                   most_scratch_dirs, extraction_failed, excluded, downloads,
                   report, Goodies_ID>>
    /\ UNCHANGED runFrame

\* what write_installer_list writes for one finding: the values as the
\* f-strings format them, and whether the first line carries the
\* "{OLD GEN INSTALLER}" tag
ReportBlock(finding) ==
    [product_name   |-> PyStr(finding.product_name),
     product_id     |-> finding.product_id,
     local_version  |-> PyStr(finding.local_version),
     tag            |-> finding.local_old_version
                        /\ ~finding.online_old_version,
     online_version |-> PyStr(finding.online_version),
     local_build    |-> PyStr(finding.local_build),
     online_build   |-> PyStr(finding.online_build)]

\* for product_id in new_versions_dict.keys()
write_installer_list(findings) ==
    [i \in 1..Len(findings) |-> ReportBlock(findings[i])]

OutputFiles == {"none", "writable", "denied"}

\* the end of start_processing and of main: the report, then the exit code
WriteInstallerList ==
    /\ run_pc = "compare"
    /\ cv_pc = "done"
    /\ \E output_file \in OutputFiles :
           IF Len(new_versions_dict) > 0 /\ output_file = "denied"
           THEN /\ log' = Append(log, Event("CRITICAL", "output_file_denied",
                                            None))
                /\ SysExit
                /\ UNCHANGED report
           ELSE /\ report' =
                       IF Len(new_versions_dict) > 0 /\ output_file # "none"
                       THEN write_installer_list(new_versions_dict)
                       ELSE report
                /\ exit_code' = IF error_occurred THEN 1 ELSE 0
                /\ run_pc' = "exited"
                /\ UNCHANGED <<log, traceback>>
    /\ UNCHANGED <<local_info, online_info, Match_Versions, sorted_local_info,
                   compared, new_versions_dict, lookups, raised, cv_pc>>
    /\ UNCHANGED <<mi_file, installers_dict_deduped, todo, scratch_dirs,
                   most_scratch_dirs, extraction_failed, excluded, downloads,
                   Goodies_ID>>
    /\ UNCHANGED runFrame

NextRun ==
    \/ CheckTools
    \/ CheckPaths
    \/ GetDataContent
    \/ GetInstallers
    \/ InsertMissingInfo
    \/ LoadOnlineData
    \/ CompareVersions
    \/ Traceback
    \/ WriteInstallerList

SpecRun == InitRun /\ [][NextRun]_vars

-----------------------------------------------------------------------------
(* insert_missing_info alone, in each of the two source files *)

InitEnrich ==
    /\ DedupIdle /\ SearchIdle /\ HyphenIdle /\ NormIdle /\ ResolveIdle
    /\ \E deduped \in DedupedChoices \ {<<>>} :
           /\ installers_dict_deduped = deduped
           /\ local_info = [path \in DOMAIN deduped |->
                                [product_id |-> deduped[path]]]
           /\ todo = SortedStrs(DOMAIN deduped)
    /\ online_info = <<>>
    /\ Match_Versions = <<>>
    /\ sorted_local_info = <<>>
    /\ compared = <<>>
    /\ new_versions_dict = <<>>
    /\ log = <<>>
    /\ lookups = <<>>
    /\ raised = None
    /\ cv_pc = "sort"
    /\ installer_info = <<>>
    /\ Goodies_ID \in {EmptyDataFile.Goodies_ID, ValidDataFile.Goodies_ID}
    /\ is_main = "None"
    /\ mg_pc = "idle"
    /\ run_pc = "enrich"
    /\ exit_code = -1
    /\ traceback = None
    /\ mi_file \in SourceFiles
    /\ scratch_dirs = {}
    /\ most_scratch_dirs = 0
    /\ extraction_failed = {}
    /\ excluded = {}
    /\ downloads = <<>>
    /\ report = <<>>

NextEnrich == InsertMissingInfo

SpecEnrich == InitEnrich /\ [][NextEnrich]_vars

-----------------------------------------------------------------------------
(* properties of the run *)

Downloads == {downloads[i] : i \in 1..Len(downloads)}

\* the requests that failed
FailedDownloads == {d \in Downloads : d.status = "failed"}

\* get_online_data has returned to start_processing
OnlineDataReturned == run_pc = "compare" \/ cv_pc \notin {"idle", "sort"}

\* C13: a failed remote call in load_online_data (the builds fetch, the pack
\* lookup, the re-fetch for the game a pack includes, the repository fetch)
\* leaves an entry for the product id of the installer it was made for, and
\* no exception ends the run.
C13_FailedCallYieldsEntry ==
    \A d \in FailedDownloads :
        /\ local_info[d.file_path].product_id \in DOMAIN online_info
        /\ (run_pc = "exited" /\ traceback # None => OnlineDataReturned)

\* insert_missing_info has returned its records to start_processing
Enriched == run_pc \in {"online", "compare"}

\* C14: an installer whose info file could not be extracted is absent from
\* the records insert_missing_info returns.
C14_ExtractionFailureDropped ==
    Enriched => \A path \in extraction_failed : path \notin DOMAIN local_info

\* C15: when insert_missing_info goes on to the next installer, returns or
\* is left by an exception, no scratch directory exists, and there never
\* were two of them at once.
C15_ScratchDirsRemoved ==
    /\ scratch_dirs = {}
    /\ most_scratch_dirs <= 1

\* C16: the exit code is 0 exactly when no event of level ERROR or above was
\* logged; a run with such an event, and a run ended by a fatal input error,
\* exits with code 1.
C16_ExitCodeZeroIffNoError ==
    run_pc = "exited" =>
        /\ exit_code \in {0, 1}
        /\ (exit_code = 0 <=> ~error_occurred)

\* the builds requests made for an installer found nothing: the first one
\* failed, or the last one answered with count 0
NoRemoteData(path) ==
    \E i \in 1..Len(downloads) :
        /\ downloads[i].file_path = path
        /\ downloads[i].kind \in {"builds", "refetch"}
        /\ downloads[i].status = "failed" \/ downloads[i].count = 0
        /\ \A j \in (i + 1)..Len(downloads) :
               downloads[j].file_path = path =>
                   downloads[j].kind \notin {"builds", "refetch"}

\* C17: once get_online_data has returned, online_info has an entry for the
\* product id of every record of local_info, and the entry of an id for
\* which no remote data was found has its three fields None.
C17_EveryRecordHasEntry ==
    OnlineDataReturned =>
        \A path \in DOMAIN local_info :
            /\ local_info[path].product_id \in DOMAIN online_info
            /\ NoRemoteData(path) =>
                   online_info[local_info[path].product_id] = NotFoundEntry

\* two records were looked up, one was found and the other was not: its
\* builds request failed
C17_Witness ==
    /\ run_pc = "compare"
    /\ DOMAIN local_info = {PathA, PathB}
    /\ online_info[P1] = NotFoundEntry
    /\ online_info[P2] # NotFoundEntry
    /\ \E d \in FailedDownloads : d.file_path = PathA /\ d.kind = "builds"

\* C18: an installer that is_main_game excludes is no record of local_info
\* any more: no request is made for it, it is not compared, and its product
\* id is in no finding and in no block of the report.
C18_ExcludedRemoved ==
    \A path \in excluded :
        /\ path \notin DOMAIN local_info
        /\ \A d \in Downloads : d.file_path # path
        /\ path \notin Entered
        /\ \A i \in 1..Len(lookups) : lookups[i].path # path
        /\ ~HasKey(new_versions_dict, installers_dict_deduped[path])
        /\ \A i \in 1..Len(report) :
               report[i].product_id # installers_dict_deduped[path]

\* of two installers one was excluded; the other one was looked up,
\* compared and reported
C18_Witness ==
    /\ run_pc = "exited"
    /\ excluded = {PathB}
    /\ \E d \in Downloads : d.file_path = PathA
    /\ compared = <<PathA>>
    /\ Len(report) = 1

\* the product names of a sequence of findings or of report blocks are in
\* non-decreasing order of their code points
NamesAscend(blocks) ==
    \A i, j \in 1..Len(blocks) :
        i < j => ~StrLess(blocks[j].product_name, blocks[i].product_name)

\* C19: the findings, and the blocks of the report written from them, are
\* in non-decreasing case-sensitive order of the product name.
C19_FindingsInNameOrder ==
    /\ NamesAscend(new_versions_dict)
    /\ NamesAscend(report)

\* two findings were reported: the installer with the smaller path has the
\* greater name
C19_Witness ==
    /\ Len(report) = 2
    /\ report[1].product_id = P2 /\ report[1].product_name = NameB
    /\ report[2].product_id = P1 /\ report[2].product_name = Nameb

\* str(None)
NoneToken == PyStr(None)

\* the four fields of a report block that can be unknown
UnknownableFields(block) ==
    {block.local_version, block.local_build, block.online_version,
     block.online_build}

\* C20: no version or build of a report block is the None token (an unknown
\* one is written as "Unknown"), and the block carries the old-generation
\* tag exactly when the finding's local side is Legacy and its remote side
\* is not.
C20_UnknownRenderedAndTag ==
    \A i \in 1..Len(report) :
        /\ NoneToken \notin UnknownableFields(report[i])
        /\ report[i].tag <=>
               (/\ new_versions_dict[i].local_old_version
                /\ ~new_versions_dict[i].online_old_version)

\* the installers whose file properties get_exe_info could not read
ExeUnreadable ==
    {path \in DOMAIN installers_dict_deduped :
        \E i \in 1..Len(log) :
            /\ log[i].msg = "exe_info_error"
            /\ log[i].product_id = installers_dict_deduped[path]}

\* C26: an installer whose file properties cannot be read is dropped from
\* the records, and insert_missing_info goes on with the next installer:
\* no exception ends the run.
C26_UnreadableMetadataDropped ==
    \A path \in ExeUnreadable :
        /\ traceback = None
        /\ path \notin DOMAIN local_info

\* the requests of one kind made for an installer
DownloadsOf(path, kind) ==
    {d \in Downloads : d.file_path = path /\ d.kind = kind}

\* the builds request of an installer answered with zero builds
ZeroBuilds(path) ==
    \E d \in DownloadsOf(path, "builds") : d.status = "ok" /\ d.count = 0

\* the product's metadata says it is a pack that includes another game
PackOf(path, included) ==
    \E d \in DownloadsOf(path, "pack") :
        /\ d.status = "ok"
        /\ d.response.product_type = <<"P", "A", "C", "K">>
        /\ d.response.included = included
        /\ included # None
        /\ included # local_info[path].product_id

\* the product's metadata was read and names no other game to look at
NotAPack(path) ==
    \E d \in DownloadsOf(path, "pack") :
        /\ d.status = "ok"
        /\ \/ d.response.product_type # <<"P", "A", "C", "K">>
           \/ d.response.included = local_info[path].product_id

\* C30: with zero builds for a product that is a pack, the entry stored
\* under the installer's own product id is made of the first build of the
\* pack's first included game; when the product is not a pack, or the
\* included game has zero builds too, it is the not-found entry.  No entry
\* is stored under the included game's id.
C30_PackBuildsUnderOriginalId ==
    \A path \in DOMAIN local_info :
        LET pid == local_info[path].product_id
        IN  (pid \in DOMAIN online_info /\ ZeroBuilds(path)) =>
                /\ \A included \in {P1, P2, P3} :
                       PackOf(path, included) =>
                           \E d \in DownloadsOf(path, "refetch") :
                               /\ d.product_id = included
                               /\ d.status = "ok"
                               /\ online_info[pid] =
                                      IF d.count = 0 THEN NotFoundEntry
                                      ELSE OnlineEntry(
                                               d.response.items[1].version_name,
                                               d.response.items[1].build_id,
                                               "False")
                               /\ included \in DOMAIN online_info =>
                                      \E other \in DOMAIN local_info :
                                          local_info[other].product_id
                                              = included
                /\ NotAPack(path) => online_info[pid] = NotFoundEntry

\* a pack whose included game has builds: the entry of the installer's own
\* id carries them, and the included game's id has no entry
C30_Witness ==
    /\ DOMAIN local_info = {PathA}
    /\ ZeroBuilds(PathA)
    /\ PackOf(PathA, P2)
    /\ online_info = (P1 :> OnlineEntry(V120, B10, "False"))

-----------------------------------------------------------------------------
(* map_product_id and get_product_id *)

\* a line of innoextract's listing: the id PRODUCT_ID_REGEX_1 (tmp\<id>.ini)
\* captures on it and the id PRODUCT_ID_REGEX_2 (goggame-<id>.<ext>)
\* captures on it, None for a pattern that does not match the line
Line(tmp_ini, goggame) == [tmp_ini |-> tmp_ini, goggame |-> goggame]

NoMatch == Line(None, None)

\* the listings innoextract prints
Listings ==
    {<<>>,
     <<NoMatch, NoMatch>>,
     <<NoMatch, Line(None, P2), Line(P1, None)>>,
     <<Line(P1, None), Line(None, P2)>>,
     <<NoMatch, Line(P1, P2), Line(P3, None)>>}

LineMatches(line) == line.tmp_ini # None \/ line.goggame # None

\* the id taken from the last line that matches
ScanListing_LastMatch(lines) ==
    IF \A i \in 1..Len(lines) : ~LineMatches(lines[i])
    THEN [product_id |-> None, scanned |-> Len(lines)]
    ELSE LET k == CHOOSE i \in 1..Len(lines) :
                      /\ LineMatches(lines[i])
                      /\ \A j \in (i + 1)..Len(lines) : ~LineMatches(lines[j])
         IN  [product_id |-> IF lines[k].tmp_ini # None THEN lines[k].tmp_ini
                             ELSE lines[k].goggame,
              scanned |-> Len(lines)]

\* for line in innoextract_output.splitlines(): the id found and the number
\* of lines the loop took
RECURSIVE ScanFrom(_, _)
ScanFrom(lines, taken) ==
    IF lines = <<>> THEN [product_id |-> None, scanned |-> taken]
    ELSE IF Head(lines).tmp_ini # None
    THEN [product_id |-> Head(lines).tmp_ini, scanned |-> taken + 1]
    ELSE IF Head(lines).goggame # None
    THEN [product_id |-> Head(lines).goggame, scanned |-> taken + 1]
    ELSE ScanFrom(Tail(lines), taken + 1)

ScanListing(lines) == ScanFrom(lines, 0)

GameX == <<"G", "a", "m", "e", " ", "X">>

\* DATA.Delisted_Games, DATA.Strings_To_Remove, DATA.Replace_Names
Data(delisted, to_remove, replace) ==
    [Delisted_Games |-> delisted, Strings_To_Remove |-> to_remove,
     Replace_Names |-> replace]

\* a DATA without the three keys, and one that delists "Game X", removes
\* " x" from names and replaces "II" by "Game"
DataChoices ==
    {Data({}, <<>>, <<>>),
     Data({GameX}, << <<" ", "x">> >>, (NumeralII :> Game))}

\* what get_exe_info gives: no result, or the ProductName (None when the
\* file has none)
ExeNames == {None, Game, GameX, GameII, NumeralII}

StartsWithIgnoreCase(name, pattern) ==
    /\ Len(pattern) <= Len(name)
    /\ Lower(SubSeq(name, 1, Len(pattern))) = Lower(pattern)

\* pattern.sub("", product_name) for a pattern of literal characters
\* compiled with re.IGNORECASE
RECURSIVE RemovePattern(_, _)
RemovePattern(name, pattern) ==
    IF name = <<>> THEN <<>>
    ELSE IF StartsWithIgnoreCase(name, pattern)
    THEN RemovePattern(SubSeq(name, Len(pattern) + 1, Len(name)), pattern)
    ELSE <<name[1]>> \o RemovePattern(Tail(name), pattern)

\* for pattern in DATA.Strings_To_Remove
RECURSIVE RemoveStrings(_, _)
RemoveStrings(name, patterns) ==
    IF patterns = <<>> THEN name
    ELSE RemoveStrings(RemovePattern(name, Head(patterns)), Tail(patterns))

\* DATA.Replace_Names.get(product_name,
\*                        DATA.Replace_Names.get(exe_info.ProductName,
\*                                               product_name))
ReplaceName(name, raw, replace) ==
    IF name \in DOMAIN replace THEN replace[name]
    ELSE IF raw \in DOMAIN replace THEN replace[raw]
    ELSE name

\* while re.search(...): product_name = re.sub(...)
RECURSIVE HyphenLoop(_)
HyphenLoop(name) ==
    IF HyphenSearch(name) THEN HyphenLoop(HyphenSub(name)) ELSE name

\* the name get_product_id searches for
CleanName(raw, data) ==
    HyphenLoop(ReplaceName(RemoveStrings(raw, data.Strings_To_Remove), raw,
                           data.Replace_Names))

\* the name tested against the delisted set: the cleaned one
DelistedKey_Cleaned(raw, data) == CleanName(raw, data)

\* the name tested against DATA.Delisted_Games
DelistedKey(raw, data) == raw

\* what get_product_id did for an installer: the listing and the lines the
\* scan took, whether get_exe_info was called and the ProductName it gave,
\* the names searched for, and once it has returned the way it ended, the
\* value returned and the last diagnostic logged
Resolution(lines, scanned, exe_read, raw, searched, returned, mode, result, level, msg) ==
    [listing |-> lines, scanned |-> scanned, exe_read |-> exe_read,
     raw |-> raw, searched |-> searched, returned |-> returned,
     mode |-> mode, result |-> result, level |-> level, msg |-> msg]

Installers == <<PathA, PathB>>

InitResolve ==
    /\ CompareIdle /\ DedupIdle /\ MainGameIdle /\ HyphenIdle
    /\ NormIdle /\ RunIdle
    /\ source_file = GogFile
    /\ Roman_Numerals = <<Roman(NumeralII, 2)>>
    /\ sr_product_name = None
    /\ searches = <<>>
    /\ found_id = None
    /\ search_log = <<>>
    /\ responses = <<>>
    /\ sr_pc = "idle"
    /\ rs_pc = "map"
    /\ rs_todo = Installers
    /\ rs_data \in DataChoices
    /\ resolutions = <<>>
    /\ mapping = <<>>

\* map_product_id goes on to the next installer, or returns
NextInstaller ==
    /\ rs_todo' = Tail(rs_todo)
    /\ rs_pc' = IF Len(rs_todo) = 1 THEN "done" ELSE "map"

\* map_product_id's call of get_product_id for one installer, up to its
\* return or to its call of search_product_id_on_gog
GetProductId ==
    /\ rs_pc = "map"
    /\ LET installer == Head(rs_todo)
           returns(r) ==
               /\ resolutions' = Put(resolutions, installer, r)
               /\ mapping' = IF r.result # None
                             THEN Put(mapping, installer, r.result)
                             ELSE mapping
               /\ NextInstaller
               /\ UNCHANGED searchVars
       IN  \E innoextract_ok \in BOOLEAN, lines \in Listings,
              exe_read \in BOOLEAN, raw \in ExeNames :
             LET scan == ScanListing(lines)
             IN  IF ~innoextract_ok
                 THEN \* CalledProcessError: logging.critical, sys.exit(1)
                      /\ rs_pc' = "exited"
                      /\ UNCHANGED <<rs_todo, resolutions, mapping>>
                      /\ UNCHANGED searchVars
                 ELSE IF scan.product_id # None
                 THEN returns(Resolution(lines, scan.scanned, FALSE, None,
                                         <<>>, TRUE, "listed",
                                         scan.product_id, "INFO",
                                         "product_id_retrieved"))
                 ELSE IF ~exe_read
                 THEN returns(Resolution(lines, scan.scanned, TRUE, None,
                                         <<>>, TRUE, "no_exe_info", None,
                                         "WARNING", "no_product_id"))
                 ELSE IF raw = None
                 THEN returns(Resolution(lines, scan.scanned, TRUE, None,
                                         <<>>, TRUE, "missing_name", None,
                                         "ERROR", "no_product_name_and_id"))
                 ELSE IF DelistedKey(raw, rs_data) \in rs_data.Delisted_Games
                 THEN returns(Resolution(lines, scan.scanned, TRUE, raw,
                                         <<>>, TRUE, "skipped", None,
                                         "INFO", "delisted_game"))
                 ELSE /\ resolutions' =
                             Put(resolutions, installer,
                                 Resolution(lines, scan.scanned, TRUE, raw,
                                            <<>>, FALSE, "searching", None,
                                            "INFO", "performing_search"))
                      /\ sr_product_name' = CleanName(raw, rs_data)
                      /\ searches' = <<>>
                      /\ responses' = <<>>
                      /\ search_log' = <<>>
                      /\ found_id' = None
                      /\ sr_pc' = "call"
                      /\ rs_pc' = "search"
                      /\ UNCHANGED <<source_file, Roman_Numerals, rs_todo,
                                     mapping>>
    /\ UNCHANGED rs_data
    /\ UNCHANGED <<cmpVars, dedupVars, mainGameVars, hyphenVars, normVars,
                   runVars>>

\* search_product_id_on_gog, called by get_product_id
SearchForProductId ==
    /\ rs_pc = "search"
    /\ \/ SearchProductIdOnGog
       \/ SearchRecursionError

\* the way a search that returned has ended
SearchMode ==
    IF LastResponse.status = "failed" THEN "search_failed"
    ELSE IF found_id # None THEN "found"
    ELSE IF LastResponse.totalGamesFound = 0 THEN "not_found"
    ELSE "ambiguous"

\* search_product_id_on_gog returns to get_product_id, which returns its
\* value to map_product_id
MapProductId ==
    /\ rs_pc = "search"
    /\ sr_pc = "done"
    /\ LET installer == Head(rs_todo)
           r == resolutions[installer]
           last == search_log[Len(search_log)]
       IN  /\ resolutions' =
                  Put(resolutions, installer,
                      Resolution(r.listing, r.scanned, r.exe_read, r.raw,
                                 searches, TRUE, SearchMode, found_id,
                                 last.level, last.msg))
           /\ mapping' = IF found_id # None
                         THEN Put(mapping, installer, found_id)
                         ELSE mapping
    /\ NextInstaller
    /\ UNCHANGED rs_data
    /\ UNCHANGED searchVars
    /\ UNCHANGED <<cmpVars, dedupVars, mainGameVars, hyphenVars, normVars,
                   runVars>>

\* the RecursionError of the search reaches the top of main
ResolveTraceback ==
    /\ rs_pc = "search"
    /\ sr_pc = "raised"
    /\ rs_pc' = "exited"
    /\ UNCHANGED <<rs_todo, rs_data, resolutions, mapping>>
    /\ UNCHANGED searchVars
    /\ UNCHANGED <<cmpVars, dedupVars, mainGameVars, hyphenVars, normVars,
                   runVars>>

NextResolve ==
    \/ GetProductId
    \/ SearchForProductId
    \/ MapProductId
    \/ ResolveTraceback

SpecResolve == InitResolve /\ [][NextResolve]_vars

-----------------------------------------------------------------------------
(* properties of map_product_id and get_product_id *)

\* the installers get_product_id has returned for
Returned == {f \in DOMAIN resolutions : resolutions[f].returned}

\* the lines of a listing that match one of the two patterns
MatchingLines(lines) == {i \in 1..Len(lines) : LineMatches(lines[i])}

\* C22: when a line of the listing matches a pattern, get_product_id
\* returns the id of the first such line, the tmp-ini one if the line
\* matches both, takes no line after it, reads no file properties and
\* searches for nothing; the properties are read only when no line matches.
C22_FirstListingMatch ==
    \A f \in DOMAIN resolutions :
        LET r == resolutions[f]
            hits == MatchingLines(r.listing)
        IN  /\ hits # {} =>
                   LET k == CHOOSE i \in hits : \A j \in hits : i <= j
                   IN  /\ r.returned
                       /\ r.result = IF r.listing[k].tmp_ini # None
                                     THEN r.listing[k].tmp_ini
                                     ELSE r.listing[k].goggame
                       /\ r.scanned = k
                       /\ ~r.exe_read
                       /\ r.searched = <<>>
                       /\ f \in DOMAIN mapping /\ mapping[f] = r.result
            /\ (r.exe_read \/ r.searched # <<>>) => hits = {}

\* a listing whose second line matches the goggame pattern and whose third
\* line matches the tmp-ini pattern: the second line's id was returned
C22_Witness ==
    \E f \in Returned :
        /\ resolutions[f].listing = <<NoMatch, Line(None, P2), Line(P1, None)>>
        /\ resolutions[f].result = P2
        /\ resolutions[f].scanned = 2

\* C24: for a ProductName that is in DATA.Delisted_Games as it was read,
\* get_product_id returns None without a search, the installer gets no
\* entry in the mapping, and map_product_id goes on.
C24_DelistedSkipped ==
    \A f \in DOMAIN resolutions :
        LET r == resolutions[f]
        IN  (r.exe_read /\ r.raw \in rs_data.Delisted_Games) =>
                /\ r.returned
                /\ r.result = None
                /\ r.searched = <<>>
                /\ f \notin DOMAIN mapping
                /\ rs_pc = "exited" => Head(rs_todo) # f

\* the first installer's name is delisted as read although its cleaned form
\* is not; it was skipped and the second installer was resolved by a search
C24_Witness ==
    /\ rs_pc = "done"
    /\ resolutions[PathA].raw = GameX
    /\ GameX \in rs_data.Delisted_Games
    /\ CleanName(GameX, rs_data) \notin rs_data.Delisted_Games
    /\ resolutions[PathA].mode = "skipped"
    /\ resolutions[PathB].searched # <<>>
    /\ PathB \in DOMAIN mapping

\* the four ways in which the identity of an installer stays unresolved
FailureModes == {"skipped", "not_found", "ambiguous", "missing_name"}

\* what the caller and the log show of a resolution
Outcome(r) == <<r.result, r.level, r.msg>>

\* C27: two resolutions that failed in different ways differ in the value
\* returned or in the diagnostic logged, and no resolution that fails in
\* one of the four ways ends the run.
C27_FailureModesDistinct ==
    /\ \A f, g \in Returned :
           (/\ resolutions[f].mode \in FailureModes
            /\ resolutions[g].mode \in FailureModes
            /\ resolutions[f].mode # resolutions[g].mode) =>
               Outcome(resolutions[f]) # Outcome(resolutions[g])
    /\ rs_pc = "exited" => Returned = DOMAIN resolutions

=============================================================================
